---- MODULE Spec2Model ----
(***************************************************************************)
(* Issue-to-action pipeline of ai-dev-agents: the keyword classifier, the   *)
(* code block extractor and SeniorDeveloperAgent._take_action_on_issues     *)
(* driving GitHubMCPClient calls (src/src/crew_agents.py,                   *)
(* src/src/github_mcp_client.py).                                           *)
(*                                                                         *)
(* Python strings are sequences of one-character strings, so that           *)
(* lower(), replace(), slicing, substring tests and the regular expression  *)
(* of extract_code_blocks are computed character by character.              *)
(***************************************************************************)
EXTENDS Naturals, Sequences, FiniteSets

(* The backtick cannot be written inside a TLA+ string: BT is that character. *)
BT == "BACKTICK"

(* ------------------------------------------------------------------ *)
(* Bounds                                                             *)
(* ------------------------------------------------------------------ *)

(* Longest ai_tasks list handed to _take_action_on_issues. *)
MaxIssues == 2

(* ------------------------------------------------------------------ *)
(* str methods                                                        *)
(* ------------------------------------------------------------------ *)

UpperChars == <<"A", "B", "C", "D", "E", "F", "G", "H", "I", "J", "K", "L", "M",
                "N", "O", "P", "Q", "R", "S", "T", "U", "V", "W", "X", "Y", "Z">>

LowerChars == <<"a", "b", "c", "d", "e", "f", "g", "h", "i", "j", "k", "l", "m",
                "n", "o", "p", "q", "r", "s", "t", "u", "v", "w", "x", "y", "z">>

DigitChars == <<"0", "1", "2", "3", "4", "5", "6", "7", "8", "9">>

Range(s) == {s[i] : i \in 1..Len(s)}

(* str.lower() on one character *)
LowerChar(c) ==
    IF \E i \in 1..Len(UpperChars) : UpperChars[i] = c
    THEN LowerChars[CHOOSE i \in 1..Len(UpperChars) : UpperChars[i] = c]
    ELSE c

(* str.lower() *)
Lower(s) == [i \in 1..Len(s) |-> LowerChar(s[i])]

(* str.replace(old, new) for one-character old and new *)
Replace(s, old, new) == [i \in 1..Len(s) |-> IF s[i] = old THEN new ELSE s[i]]

(* s[:n] *)
Prefix(s, n) == SubSeq(s, 1, IF Len(s) < n THEN Len(s) ELSE n)

(* c.isalnum() *)
IsAlnum(c) == c \in Range(UpperChars) \cup Range(LowerChars) \cup Range(DigitChars)

(* "".join(c for c in s if keep(c)) *)
Filter(s, keep(_)) == SelectSeq(s, keep)

(* sub in s *)
Contains(s, sub) ==
    \E i \in 1..(Len(s) + 1) :
        /\ i + Len(sub) - 1 <= Len(s)
        /\ SubSeq(s, i, i + Len(sub) - 1) = sub

(* str(n) for a non-negative integer *)
RECURSIVE Str(_)
Str(n) == IF n < 10 THEN <<DigitChars[n + 1]>>
          ELSE Str(n \div 10) \o <<DigitChars[(n % 10) + 1]>>

(* any(keyword in text for keyword in keywords) *)
AnyKeywordIn(text, keywords) ==
    \E k \in 1..Len(keywords) : Contains(text, keywords[k])

(* ------------------------------------------------------------------ *)
(* Issues (GitHubIssue) of the repository                              *)
(* ------------------------------------------------------------------ *)

GitHubIssue(number, title, body, state) ==
    [number |-> number, title |-> title, body |-> body, state |-> state]

(* The issues labelled ai-task that list_issues can return: the three of  *)
(* test_action_taking.py and two that carry no code-change keyword.       *)
IssueNumbers == {123, 124, 125, 126, 127}

Issue(n) ==
    CASE n = 123 ->
           GitHubIssue(123,
      <<"I", "m", "p", "l", "e", "m", "e", "n", "t", " ", "u", "s", "e", "r", " ", "a", "u", "t", "h",
        "e", "n", "t", "i", "c", "a", "t", "i", "o", "n", " ", "A", "P", "I">>,
      <<"C", "r", "e", "a", "t", "e", " ", "a", " ", "R", "E", "S", "T", " ", "A", "P", "I", " ", "e",
        "n", "d", "p", "o", "i", "n", "t", " ", "f", "o", "r", " ", "u", "s", "e", "r", " ", "a", "u",
        "t", "h", "e", "n", "t", "i", "c", "a", "t", "i", "o", "n", ".", "\n", "\n", "R", "e", "q",
        "u", "i", "r", "e", "m", "e", "n", "t", "s", ":", "\n", "-", " ", "P", "O", "S", "T", " ", "/",
        "a", "p", "i", "/", "a", "u", "t", "h", "/", "l", "o", "g", "i", "n", " ", "e", "n", "d", "p",
        "o", "i", "n", "t", "\n", "-", " ", "A", "c", "c", "e", "p", "t", " ", "u", "s", "e", "r", "n",
        "a", "m", "e", " ", "a", "n", "d", " ", "p", "a", "s", "s", "w", "o", "r", "d", "\n", "-", " ",
        "R", "e", "t", "u", "r", "n", " ", "J", "W", "T", " ", "t", "o", "k", "e", "n", " ", "o", "n",
        " ", "s", "u", "c", "c", "e", "s", "s", "\n", "-", " ", "H", "a", "n", "d", "l", "e", " ", "i",
        "n", "v", "a", "l", "i", "d", " ", "c", "r", "e", "d", "e", "n", "t", "i", "a", "l", "s", "\n",
        "-", " ", "U", "s", "e", " ", "b", "c", "r", "y", "p", "t", " ", "f", "o", "r", " ", "p", "a",
        "s", "s", "w", "o", "r", "d", " ", "h", "a", "s", "h", "i", "n", "g", "\n", "\n", "P", "l",
        "e", "a", "s", "e", " ", "i", "m", "p", "l", "e", "m", "e", "n", "t", " ", "t", "h", "i", "s",
        " ", "i", "n", " ", "P", "y", "t", "h", "o", "n", " ", "u", "s", "i", "n", "g", " ", "F", "l",
        "a", "s", "k", ".">>,
             "open")
      [] n = 124 ->
           GitHubIssue(124,
      <<"I", "n", "v", "a", "l", "i", "d", " ", "t", "e", "s", "t", " ", "i", "s", "s", "u", "e">>,
      <<"T", "h", "i", "s", " ", "i", "s", " ", "a", "n", " ", "i", "n", "v", "a", "l", "i", "d", " ",
        "t", "e", "s", "t", " ", "i", "s", "s", "u", "e", " ", "t", "h", "a", "t", " ", "s", "h", "o",
        "u", "l", "d", " ", "b", "e", " ", "c", "l", "o", "s", "e", "d", ".">>,
             "open")
      [] n = 125 ->
           GitHubIssue(125,
      <<"A", "d", "d", " ", "u", "s", "e", "r", " ", "r", "e", "g", "i", "s", "t", "r", "a", "t", "i",
        "o", "n", " ", "-", " ", "D", "O", "N", "E">>,
      <<"T", "h", "i", "s", " ", "f", "e", "a", "t", "u", "r", "e", " ", "h", "a", "s", " ", "b", "e",
        "e", "n", " ", "c", "o", "m", "p", "l", "e", "t", "e", "d", " ", "a", "n", "d", " ", "i", "m",
        "p", "l", "e", "m", "e", "n", "t", "e", "d", ".">>,
             "open")
      [] n = 126 ->
           GitHubIssue(126,
      <<"L", "o", "g", "i", "n", " ", "p", "a", "g", "e", " ", "r", "e", "d", "e", "s", "i", "g", "n">>,
      <<"R", "e", "s", "o", "l", "v", "e", "d", " ", "l", "a", "s", "t", " ", "s", "p", "r", "i", "n",
        "t", ".">>,
             "closed")
      [] n = 127 ->
           GitHubIssue(127,
      <<"Q", "u", "e", "s", "t", "i", "o", "n", " ", "a", "b", "o", "u", "t", " ", "r", "o", "a", "d",
        "m", "a", "p">>,
      <<>>,
             "open")

(* ------------------------------------------------------------------ *)
(* Classifier                                                         *)
(* ------------------------------------------------------------------ *)

code_keywords == <<
    <<"i", "m", "p", "l", "e", "m", "e", "n", "t">>,
    <<"c", "r", "e", "a", "t", "e">>,
    <<"a", "d", "d">>,
    <<"f", "i", "x">>,
    <<"u", "p", "d", "a", "t", "e">>,
    <<"m", "o", "d", "i", "f", "y">>,
    <<"c", "h", "a", "n", "g", "e">>,
    <<"f", "u", "n", "c", "t", "i", "o", "n">>,
    <<"c", "l", "a", "s", "s">>,
    <<"m", "e", "t", "h", "o", "d">>,
    <<"a", "p", "i">>,
    <<"e", "n", "d", "p", "o", "i", "n", "t">>,
    <<"f", "i", "l", "e">>,
    <<"c", "o", "d", "e">>,
    <<"s", "c", "r", "i", "p", "t">>,
    <<"m", "o", "d", "u", "l", "e">>,
    <<"l", "i", "b", "r", "a", "r", "y">>,
    <<"p", "a", "c", "k", "a", "g", "e">>,
    <<"c", "o", "m", "p", "o", "n", "e", "n", "t">>
  >>

invalid_keywords == <<
    <<"i", "n", "v", "a", "l", "i", "d">>,
    <<"u", "n", "c", "l", "e", "a", "r">>,
    <<"n", "o", "t", " ", "c", "l", "e", "a", "r">>,
    <<"c", "o", "n", "f", "u", "s", "i", "n", "g">>,
    <<"w", "r", "o", "n", "g">>,
    <<"e", "r", "r", "o", "r">>,
    <<"d", "u", "p", "l", "i", "c", "a", "t", "e">>,
    <<"s", "p", "a", "m">>,
    <<"t", "e", "s", "t">>,
    <<"e", "x", "a", "m", "p", "l", "e">>,
    <<"s", "a", "m", "p", "l", "e">>
  >>

completed_keywords == <<
    <<"d", "o", "n", "e">>,
    <<"c", "o", "m", "p", "l", "e", "t", "e", "d">>,
    <<"f", "i", "n", "i", "s", "h", "e", "d">>,
    <<"r", "e", "s", "o", "l", "v", "e", "d">>,
    <<"f", "i", "x", "e", "d">>,
    <<"c", "l", "o", "s", "e", "d">>,
    <<"i", "m", "p", "l", "e", "m", "e", "n", "t", "e", "d">>,
    <<"a", "d", "d", "e", "d">>,
    <<"c", "r", "e", "a", "t", "e", "d">>
  >>

(* f"{task.title} {task.body}".lower() *)
task_text(task) == Lower(task.title \o <<" ">> \o task.body)

_requires_code_changes(task) == AnyKeywordIn(task_text(task), code_keywords)

_is_invalid_issue(task) == AnyKeywordIn(task_text(task), invalid_keywords)

_is_completed_issue(task) == AnyKeywordIn(task_text(task), completed_keywords)

(* ------------------------------------------------------------------ *)
(* Code block extractor                                               *)
(* ------------------------------------------------------------------ *)

(* \w of the regular expression *)
IsWordChar(c) == IsAlnum(c) \/ c = "_"

(* the characters str.strip() removes *)
IsSpace(c) == c \in {" ", "\n", "\t", "\r"}

RECURSIVE LStrip(_)
LStrip(s) == IF s # <<>> /\ IsSpace(Head(s)) THEN LStrip(Tail(s)) ELSE s

RECURSIVE RStrip(_)
RStrip(s) == IF s # <<>> /\ IsSpace(s[Len(s)]) THEN RStrip(SubSeq(s, 1, Len(s) - 1)) ELSE s

(* str.strip() *)
Strip(s) == LStrip(RStrip(s))

Fence == <<BT, BT, BT>>

(* s[i:].startswith(sub), i 1-based *)
StartsAt(s, i, sub) ==
    /\ i + Len(sub) - 1 <= Len(s)
    /\ SubSeq(s, i, i + Len(sub) - 1) = sub

(* end of the longest run of word characters starting at i (i - 1 if none) *)
RECURSIVE WordEnd(_, _)
WordEnd(s, i) == IF i <= Len(s) /\ IsWordChar(s[i]) THEN WordEnd(s, i + 1) ELSE i - 1

(* first j >= i where a fence starts, 0 if there is none *)
RECURSIVE NextFence(_, _)
NextFence(s, i) ==
    IF i > Len(s) THEN 0
    ELSE IF StartsAt(s, i, Fence) THEN i
    ELSE NextFence(s, i + 1)

(* One attempt of the pattern ```(\w+)?\n(.*?)``` at position i, with      *)
(* re.DOTALL.  (\w+)? is greedy and the next pattern character is \n, so   *)
(* giving characters back never helps: the tag is the whole run of word    *)
(* characters or the attempt fails.  (.*?) ends at the first later fence.  *)
MatchAt(s, i) ==
    IF ~StartsAt(s, i, Fence) THEN [found |-> FALSE]
    ELSE LET w == WordEnd(s, i + 3)
             nl == w + 1
         IN IF ~(nl <= Len(s) /\ s[nl] = "\n") THEN [found |-> FALSE]
            ELSE LET close == NextFence(s, nl + 1)
                 IN IF close = 0 THEN [found |-> FALSE]
                    ELSE [found |-> TRUE,
                          tag |-> SubSeq(s, i + 3, w),
                          body |-> SubSeq(s, nl + 1, close - 1),
                          next |-> close + 3]

(* re.findall: leftmost non-overlapping matches from position i on *)
RECURSIVE FindAll(_, _)
FindAll(s, i) ==
    IF i > Len(s) THEN <<>>
    ELSE LET m == MatchAt(s, i)
         IN IF m.found THEN <<[tag |-> m.tag, body |-> m.body]>> \o FindAll(s, m.next)
            ELSE FindAll(s, i + 1)

extract_code_blocks(text) ==
    LET matches == FindAll(text, 1)
    IN [k \in 1..Len(matches) |->
          [language |-> IF matches[k].tag # <<>> THEN matches[k].tag ELSE <<"t", "e", "x", "t">>,
           code |-> Strip(matches[k].body)]]

(* The texts crew.kickoff() can hand over as analysis_result: no block; a  *)
(* python block; python, bash and js blocks; one block without a tag.      *)
AnalysisTexts == {
      <<"N", "o", " ", "c", "o", "d", "e", " ", "w", "a", "s", " ", "p", "r", "o", "d", "u", "c", "e",
        "d", ".">>,
      <<"P", "l", "a", "n", ":", "\n", BT, BT, BT, "p", "y", "t", "h", "o", "n", "\n", "x", " ", "=",
        " ", "1", "\n", BT, BT, BT, "\n", "D", "o", "n", "e", ".">>,
      <<BT, BT, BT, "p", "y", "t", "h", "o", "n", "\n", "x", " ", "=", " ", "1", "\n", BT, BT, BT,
        "\n", BT, BT, BT, "b", "a", "s", "h", "\n", "l", "s", "\n", BT, BT, BT, "\n", BT, BT, BT, "j",
        "s", "\n", "y", "(", ")", "\n", BT, BT, BT>>,
      <<BT, BT, BT, "\n", "p", "l", "a", "i", "n", "\n", BT, BT, BT>>
    }

(* ------------------------------------------------------------------ *)
(* Branch name and file path                                          *)
(* ------------------------------------------------------------------ *)

TitleCut == 30

(* a join that drops the hyphens too *)
KeepInBranch_alnum(c) == IsAlnum(c)

(* a join that keeps every character *)
KeepInBranch_all(c) == TRUE

KeepInBranch(c) == IsAlnum(c) \/ c = "-"

BranchName(task) ==
    LET slug == Prefix(Replace(Lower(task.title), " ", "-"), TitleCut)
        raw == <<"a", "i", "-", "t", "a", "s", "k", "-">> \o Str(task.number) \o <<"-">> \o slug
    IN Filter(raw, KeepInBranch)

SupportedLanguages == {
    <<"p", "y", "t", "h", "o", "n">>, <<"j", "s">>,
    <<"j", "a", "v", "a", "s", "c", "r", "i", "p", "t">>,
    <<"t", "y", "p", "e", "s", "c", "r", "i", "p", "t">>,
    <<"j", "a", "v", "a">>, <<"c", "p", "p">>, <<"c">>, <<"g", "o">>, <<"r", "u", "s", "t">>
  }

ext_map(language) ==
    CASE language = <<"p", "y", "t", "h", "o", "n">> -> <<".", "p", "y">>
      [] language = <<"j", "s">> -> <<".", "j", "s">>
      [] language = <<"j", "a", "v", "a", "s", "c", "r", "i", "p", "t">> -> <<".", "j", "s">>
      [] language = <<"t", "y", "p", "e", "s", "c", "r", "i", "p", "t">> -> <<".", "t", "s">>
      [] language = <<"j", "a", "v", "a">> -> <<".", "j", "a", "v", "a">>
      [] language = <<"c", "p", "p">> -> <<".", "c", "p", "p">>
      [] language = <<"c">> -> <<".", "c">>
      [] language = <<"g", "o">> -> <<".", "g", "o">>
      [] language = <<"r", "u", "s", "t">> -> <<".", "r", "s">>
      [] OTHER -> <<".", "t", "x", "t">>

(* f"ai_task_implementations/ai_task_implementation_{i+1}{ext}", i 0-based *)
FilePath(i, block) ==
    [dir |-> "ai_task_implementations", stem |-> "ai_task_implementation_",
     index |-> i + 1, ext |-> ext_map(block.language)]

(* ------------------------------------------------------------------ *)
(* GitHubMCPClient: what each method hands back to the executor        *)
(* ------------------------------------------------------------------ *)

(* What can happen to the POST a client method sends: HTTP 200 with a      *)
(* truthy result ("ok"), HTTP 200 whose body carries success false, a null *)
(* pull_request or an error envelope ("refused"), another status           *)
(* ("non200"), or session.post raising ("exception").                      *)
Outcomes == {"ok", "refused", "non200", "exception"}

NoUrl == [repo |-> "", pull |-> 0]

(* None, for create_pull_request *)
NoPR == [number |-> 0, html_url |-> NoUrl]

(* the pull request object the upstream answers with *)
PullRequest(n) == [number |-> n, html_url |-> [repo |-> "owner/repo", pull |-> n]]

(* add_issue_comment without its except clause: a transport exception     *)
(* leaves the method.                                                      *)
add_issue_comment_propagates(outcome) ==
    [raised |-> outcome = "exception", ok |-> outcome = "ok", pr |-> NoPR]

(* Each method returns inside its own try/except: raised says whether an  *)
(* exception leaves the method, ok is the truthiness of the value.         *)
close_issue(outcome) == [raised |-> FALSE, ok |-> outcome = "ok", pr |-> NoPR]

add_issue_comment(outcome) == [raised |-> FALSE, ok |-> outcome = "ok", pr |-> NoPR]

create_branch(outcome) == [raised |-> FALSE, ok |-> outcome = "ok", pr |-> NoPR]

create_file(outcome) == [raised |-> FALSE, ok |-> outcome = "ok", pr |-> NoPR]

create_pull_request(outcome, pr) ==
    [raised |-> FALSE, ok |-> outcome = "ok", pr |-> IF outcome = "ok" THEN pr ELSE NoPR]

(* ------------------------------------------------------------------ *)
(* Result strings, log lines and comments                              *)
(* ------------------------------------------------------------------ *)

(* The two emoji that open a line or a result. *)
CheckMark == "U+2705"

CrossMark == "U+274C"

(* A string built from a template: the markers it carries, in order, the   *)
(* template, and the values formatted into it (empty when the template     *)
(* does not mention them).                                                 *)
Blank == [marks |-> <<>>, text |-> "", issue |-> 0, title |-> <<>>, branch |-> <<>>,
          number |-> 0, html_url |-> NoUrl]

NoCodeText == "No code implementation found in analysis"

BranchFailText == "Failed to create branch {branch_name} for issue #{task.number}"

NoFilesText == "No implementation files were created for issue #{task.number}"

PRSuccessText == "Successfully created pull request #{pr_number}: {pr_url}"

PRFailText == "Failed to create pull request for issue #{task.number}"

PRErrorText == "Error creating pull request: {str(pr_error)}"

HeaderRule == "=================================================="

HeaderTitle == "ACTIONS TAKEN ON ISSUES"

ProcessingText == "\nProcessing Issue #{task.number}: {task.title}"

AddedCommentText == "Added comment to issue #{task.number}"

ClosedInvalidText == "Closed invalid issue #{task.number}"

ClosedCompletedText == "Closed completed issue #{task.number}"

AddedAnalysisText == "Added analysis comment to issue #{task.number}"

NoCodeResult == [Blank EXCEPT !.text = NoCodeText]

BranchFailResult(task, branch) ==
    [Blank EXCEPT !.marks = <<CrossMark>>, !.text = BranchFailText,
                  !.issue = task.number, !.branch = branch]

NoFilesResult(task) ==
    [Blank EXCEPT !.marks = <<CrossMark>>, !.text = NoFilesText, !.issue = task.number]

PRSuccessResult(pr) ==
    [Blank EXCEPT !.marks = <<CheckMark>>, !.text = PRSuccessText,
                  !.number = pr.number, !.html_url = pr.html_url]

(* the failure of create_pull_request reported as a created pull request *)
PRFailResult_as_created(task) ==
    [Blank EXCEPT !.marks = <<CheckMark>>, !.text = PRSuccessText]

PRFailResult(task) ==
    [Blank EXCEPT !.marks = <<CrossMark>>, !.text = PRFailText, !.issue = task.number]

PRErrorResult == [Blank EXCEPT !.marks = <<CrossMark>>, !.text = PRErrorText]

(* f"<check mark> {pr_result}" *)
Checked(line) == [line EXCEPT !.marks = <<CheckMark>> \o @]

ProcessingLine(task) ==
    [Blank EXCEPT !.text = ProcessingText, !.issue = task.number, !.title = task.title]

DoneLine(text, task) ==
    [Blank EXCEPT !.marks = <<CheckMark>>, !.text = text, !.issue = task.number]

Header == <<[Blank EXCEPT !.text = HeaderRule], [Blank EXCEPT !.text = HeaderTitle],
            [Blank EXCEPT !.text = HeaderRule]>>

AnalysisCut == 500

NoComment == [text |-> "", html_url |-> NoUrl, detail |-> Blank, excerpt |-> <<>>]

PRLinkCommentText ==
    "AI Agent has created a pull request to address this issue: {pr_url}\n\nPlease review the implementation."

PRIssueCommentText ==
    "AI Agent attempted to create a pull request but encountered an issue: {pr_result}"

InvalidCommentText ==
    "AI Agent: This issue appears to be invalid or unclear. Closing as requested."

CompletedCommentText == "AI Agent: This issue has been completed. Closing as requested."

AnalysisCommentText == "AI Agent Analysis:\n\n{analysis_result[:500]}..."

(* "Successfully created pull request" in pr_result: of the result         *)
(* strings only the success template contains it (a branch name is lower   *)
(* case).                                                                  *)
HasSuccessText(result) == result.text = PRSuccessText

(* pr_result.split(": ")[-1]: the success template ends in ": {pr_url}" *)
LastSegment(result) == result.html_url

(* lines 390-394 with the else branch lost: the link comment always *)
FollowUpComment_always_link(result) ==
    [NoComment EXCEPT !.text = PRLinkCommentText, !.html_url = LastSegment(result)]

(* the comment of lines 390-394 *)
FollowUpComment(result) ==
    IF HasSuccessText(result)
    THEN [NoComment EXCEPT !.text = PRLinkCommentText, !.html_url = LastSegment(result)]
    ELSE [NoComment EXCEPT !.text = PRIssueCommentText, !.detail = result]

AnalysisComment(text) ==
    [NoComment EXCEPT !.text = AnalysisCommentText, !.excerpt = Prefix(text, AnalysisCut)]

(* ------------------------------------------------------------------ *)
(* State                                                              *)
(* ------------------------------------------------------------------ *)

VARIABLES
    ai_tasks,         \* the list handed to _take_action_on_issues (issue numbers)
    analysis_result,  \* the generated text
    idx,              \* position of the for loop in ai_tasks
    pc,               \* the await the executor is suspended at
    todo,             \* branches of the if/elif chain still to run for this task
    action_summary,   \* the action log
    calls,            \* the client calls made so far, in order
    code_blocks,      \* locals of _create_pull_request_for_issue
    branch_name,
    block_i,
    files_created,
    pr_result,
    next_pr,          \* number the upstream gives the next pull request
    faults,           \* kinds of transport failure that have happened
    fn_pc,            \* a function applied on its own: "ready", then "done"
    fn_in,            \* its argument
    fn_out,           \* its value
    srv_pc,           \* MCP server: "idle" between calls, "gateway" inside one
    srv_session,      \* GitHubMCPServer.session: "open" or "closed"
    srv_request,      \* the body posted to /call
    srv_upstream,     \* the GitHub requests made for srv_request, in order
    srv_response,     \* the answer to the last call
    srv_handled,      \* calls answered so far
    cli_pc,           \* the `async with GitHubMCPClient(...)` of main.py: where it is
    cli_session,      \* GitHubMCPClient.session: "None", "open" or "closed"
    cli_created,      \* ClientSession objects the client has created
    cli_calls,        \* gateway calls made inside the with block
    main_pc,          \* main() of mcp_server.py: where it is
    main_session,     \* the session of its GitHubMCPServer: "None", "open" or "closed"
    race_issue,       \* two invocations at once: the issue each one processes
    race_pc,          \* where each one is in _create_pull_request_for_issue
    race_refs,        \* the branches that exist upstream
    race_made         \* what each one has done: branch, files, pull request, comment

exec_vars == <<ai_tasks, analysis_result, idx, pc, todo, action_summary, calls, code_blocks,
               branch_name, block_i, files_created, pr_result, next_pr, faults>>

fn_vars == <<fn_pc, fn_in, fn_out>>

srv_vars == <<srv_pc, srv_session, srv_request, srv_upstream, srv_response, srv_handled>>

life_vars == <<cli_pc, cli_session, cli_created, cli_calls, main_pc, main_session>>

race_vars == <<race_issue, race_pc, race_refs, race_made>>

vars == <<exec_vars, fn_vars, srv_vars, life_vars, race_vars>>

(* no client block, no server process and no second invocation in a run *)
LifeUnused ==
    /\ cli_pc = "unused"
    /\ cli_session = "None"
    /\ cli_created = 0
    /\ cli_calls = 0
    /\ main_pc = "unused"
    /\ main_session = "None"

RaceUnused ==
    /\ race_issue = <<>>
    /\ race_pc = <<>>
    /\ race_refs = {}
    /\ race_made = <<>>

(* the function harness and the server take no part in a run *)
FnUnused == fn_pc = "unused" /\ fn_in = <<>> /\ fn_out = <<>>

ServerUnused ==
    /\ srv_pc = "unused"
    /\ srv_session = "closed"
    /\ srv_request = <<>>
    /\ srv_upstream = <<>>
    /\ srv_response = <<>>
    /\ srv_handled = 0

FirstPR == 15

NoLocals == [code_blocks |-> <<>>, branch_name |-> <<>>, block_i |-> 0,
             files_created |-> 0, pr_result |-> Blank]

Locals == [code_blocks |-> code_blocks, branch_name |-> branch_name, block_i |-> block_i,
           files_created |-> files_created, pr_result |-> pr_result]

NoCall == [op |-> "", issue |-> 0, branch |-> <<>>, base |-> "", path |-> <<>>,
           content |-> <<>>, comment |-> NoComment, ok |-> FALSE, pr |-> NoPR]

(* the loop walking the list from its end *)
CurrentTask_from_end == Issue(ai_tasks[Len(ai_tasks) + 1 - idx])

CurrentTask == Issue(ai_tasks[idx])

(* the transport failure an outcome is, if it is one *)
Fault(outcome) == IF outcome \in {"non200", "exception"} THEN {outcome} ELSE {}

(* lists of distinct issues, as list_issues returns them *)
TaskLists ==
    {s \in UNION {[1..n -> IssueNumbers] : n \in 1..MaxIssues} :
        \A i, j \in 1..Len(s) : i # j => s[i] # s[j]}

Init ==
    /\ ai_tasks \in TaskLists
    /\ analysis_result \in AnalysisTexts
    /\ idx = 1
    /\ pc = "loop"
    /\ todo = <<>>
    /\ action_summary = Header
    /\ calls = <<>>
    /\ code_blocks = <<>>
    /\ branch_name = <<>>
    /\ block_i = 0
    /\ files_created = 0
    /\ pr_result = Blank
    /\ next_pr = FirstPR
    /\ faults = {}
    /\ FnUnused
    /\ ServerUnused
    /\ LifeUnused
    /\ RaceUnused

(* the executor takes no part in a run *)
ExecUnused ==
    /\ ai_tasks = <<>>
    /\ analysis_result = <<>>
    /\ idx = 1
    /\ pc = "unused"
    /\ todo = <<>>
    /\ action_summary = <<>>
    /\ calls = <<>>
    /\ code_blocks = <<>>
    /\ branch_name = <<>>
    /\ block_i = 0
    /\ files_created = 0
    /\ pr_result = Blank
    /\ next_pr = FirstPR
    /\ faults = {}

(* ------------------------------------------------------------------ *)
(* _take_action_on_issues and _create_pull_request_for_issue           *)
(* ------------------------------------------------------------------ *)

(* the chain written with if instead of elif: every matching branch runs *)
take_action_branches_all_if(task) ==
    (IF _requires_code_changes(task) THEN <<"pull_request">> ELSE <<>>)
    \o (IF _is_invalid_issue(task) THEN <<"close_invalid">> ELSE <<>>)
    \o (IF _is_completed_issue(task) THEN <<"close_completed">> ELSE <<"analysis_comment">>)

(* the chain with the invalid check moved to the front *)
take_action_branches_invalid_first(task) ==
    IF _is_invalid_issue(task) THEN <<"close_invalid">>
    ELSE IF _requires_code_changes(task) THEN <<"pull_request">>
    ELSE IF _is_completed_issue(task) THEN <<"close_completed">>
    ELSE <<"analysis_comment">>

(* the chain with the completed check moved to the front *)
take_action_branches_completed_first(task) ==
    IF _is_completed_issue(task) THEN <<"close_completed">>
    ELSE IF _requires_code_changes(task) THEN <<"pull_request">>
    ELSE IF _is_invalid_issue(task) THEN <<"close_invalid">>
    ELSE <<"analysis_comment">>

(* a chain that leaves closed issues alone *)
take_action_branches_open_only(task) ==
    IF task.state = "closed" THEN <<>>
    ELSE IF _requires_code_changes(task) THEN <<"pull_request">>
    ELSE IF _is_invalid_issue(task) THEN <<"close_invalid">>
    ELSE IF _is_completed_issue(task) THEN <<"close_completed">>
    ELSE <<"analysis_comment">>

(* The branches of the if/elif/else chain whose body runs for a task. *)
take_action_branches(task) ==
    IF _requires_code_changes(task) THEN <<"pull_request">>
    ELSE IF _is_invalid_issue(task) THEN <<"close_invalid">>
    ELSE IF _is_completed_issue(task) THEN <<"close_completed">>
    ELSE <<"analysis_comment">>

(* the empty-list check left out *)
NoImplementation_never(blocks) == FALSE

(* if not code_blocks *)
NoImplementation(blocks) == blocks = <<>>

(* the return value of create_branch ignored *)
BranchAborts_never(branch_created) == FALSE

(* if not branch_created *)
BranchAborts(branch_created) == ~branch_created

(* the zero-files check left out *)
NoFilesCreated_never(n) == FALSE

(* if files_created == 0 *)
NoFilesCreated(n) == n = 0

(* a loop without the language test *)
IsSupported_all(block) == TRUE

(* block['language'] in [...] *)
IsSupported(block) == block.language \in SupportedLanguages

(* 0-based index of the first supported block at or after from, Len(blocks) *)
(* when the loop runs out                                                   *)
RECURSIVE NextSupported(_, _)
NextSupported(blocks, from) ==
    IF from >= Len(blocks) THEN Len(blocks)
    ELSE IF IsSupported(blocks[from + 1]) THEN from
    ELSE NextSupported(blocks, from + 1)

Goto(p, rest, summary, loc) ==
    /\ pc' = p
    /\ todo' = rest
    /\ action_summary' = summary
    /\ code_blocks' = loc.code_blocks
    /\ branch_name' = loc.branch_name
    /\ block_i' = loc.block_i
    /\ files_created' = loc.files_created
    /\ pr_result' = loc.pr_result

(* _create_pull_request_for_issue returns result: line 387 logs it and the *)
(* executor goes on to the follow-up comment.                              *)
ReturnFromPR(result, summary) ==
    /\ Goto("add_issue_comment", todo', Append(summary, Checked(result)),
            [NoLocals EXCEPT !.pr_result = result])
    /\ idx' = idx

(* The file loop from block index from on, fc files created so far. *)
FileLoop(from, fc) ==
    LET nxt == NextSupported(code_blocks, from)
    IN IF nxt < Len(code_blocks)
       THEN /\ Goto("create_file", todo', action_summary,
                    [Locals EXCEPT !.block_i = nxt, !.files_created = fc])
            /\ idx' = idx
       ELSE IF NoFilesCreated(fc)
       THEN ReturnFromPR(NoFilesResult(CurrentTask), action_summary)
       ELSE /\ Goto("create_pull_request", todo', action_summary,
                    [Locals EXCEPT !.block_i = nxt, !.files_created = fc])
            /\ idx' = idx

(* Run the branches acts for the current task up to the first await, or    *)
(* move to the next task when none is left.                                *)
Dispatch(acts, summary) ==
    IF acts = <<>>
    THEN /\ Goto("loop", <<>>, summary, NoLocals)
         /\ idx' = idx + 1
    ELSE /\ todo' = Tail(acts)
         /\ IF Head(acts) = "pull_request"
            THEN LET blocks == extract_code_blocks(analysis_result)
                 IN IF NoImplementation(blocks)
                    THEN ReturnFromPR(NoCodeResult, summary)
                    ELSE /\ Goto("create_branch", Tail(acts), summary,
                                 [NoLocals EXCEPT !.code_blocks = blocks,
                                                  !.branch_name = BranchName(CurrentTask)])
                         /\ idx' = idx
            ELSE /\ Goto(Head(acts), Tail(acts), summary, NoLocals)
                 /\ idx' = idx

(* an exception leaves _take_action_on_issues *)
Raise ==
    /\ pc' = "raised"
    /\ UNCHANGED <<idx, todo, action_summary, code_blocks, branch_name, block_i,
                   files_created, pr_result>>

(* for task in ai_tasks: log the task and enter the if/elif chain *)
StartIssue ==
    /\ pc = "loop"
    /\ idx <= Len(ai_tasks)
    /\ Dispatch(take_action_branches(CurrentTask),
                Append(action_summary, ProcessingLine(CurrentTask)))
    /\ UNCHANGED <<ai_tasks, analysis_result, calls, next_pr, faults, fn_vars, srv_vars, life_vars, race_vars>>

(* Step 1: create_branch returns *)
CreateBranch ==
    /\ pc = "create_branch"
    /\ \E outcome \in Outcomes :
        LET r == create_branch(outcome)
        IN /\ calls' = Append(calls, [NoCall EXCEPT !.op = "create_branch",
                                                    !.issue = CurrentTask.number,
                                                    !.branch = branch_name,
                                                    !.base = "main", !.ok = r.ok])
           /\ faults' = faults \cup Fault(outcome)
           /\ todo' = todo
           /\ IF r.raised THEN ReturnFromPR(PRErrorResult, action_summary)
              ELSE IF BranchAborts(r.ok)
              THEN ReturnFromPR(BranchFailResult(CurrentTask, branch_name), action_summary)
              ELSE FileLoop(0, 0)
    /\ UNCHANGED <<ai_tasks, analysis_result, next_pr, fn_vars, srv_vars, life_vars, race_vars>>

(* a content written for the issue at hand *)
FileContent_per_issue(task, block) == Str(task.number) \o block.code

(* content=block['code'] *)
FileContent(task, block) == block.code

(* Step 2: create_file returns for block block_i *)
CreateFile ==
    /\ pc = "create_file"
    /\ \E outcome \in Outcomes :
        LET r == create_file(outcome)
            block == code_blocks[block_i + 1]
        IN /\ calls' = Append(calls, [NoCall EXCEPT !.op = "create_file",
                                                    !.issue = CurrentTask.number,
                                                    !.branch = branch_name,
                                                    !.path = FilePath(block_i, block),
                                                    !.content = FileContent(CurrentTask, block),
                                                    !.ok = r.ok])
           /\ faults' = faults \cup Fault(outcome)
           /\ todo' = todo
           /\ IF r.raised THEN ReturnFromPR(PRErrorResult, action_summary)
              ELSE FileLoop(block_i + 1, IF r.ok THEN files_created + 1 ELSE files_created)
    /\ UNCHANGED <<ai_tasks, analysis_result, next_pr, fn_vars, srv_vars, life_vars, race_vars>>

(* Step 3: create_pull_request returns *)
CreatePullRequest ==
    /\ pc = "create_pull_request"
    /\ \E outcome \in Outcomes :
        LET r == create_pull_request(outcome, PullRequest(next_pr))
        IN /\ calls' = Append(calls, [NoCall EXCEPT !.op = "create_pull_request",
                                                    !.issue = CurrentTask.number,
                                                    !.branch = branch_name,
                                                    !.base = "main", !.ok = r.ok,
                                                    !.pr = r.pr])
           /\ faults' = faults \cup Fault(outcome)
           /\ next_pr' = IF outcome = "ok" THEN next_pr + 1 ELSE next_pr
           /\ todo' = todo
           /\ IF r.raised THEN ReturnFromPR(PRErrorResult, action_summary)
              ELSE IF r.ok THEN ReturnFromPR(PRSuccessResult(r.pr), action_summary)
              ELSE ReturnFromPR(PRFailResult(CurrentTask), action_summary)
    /\ UNCHANGED <<ai_tasks, analysis_result, fn_vars, srv_vars, life_vars, race_vars>>

(* One awaited call of the executor itself (outside any try): the call is  *)
(* made, its value is dropped, the line is logged, the chain goes on.      *)
ExecutorCall(r, outcome, op, comment, text) ==
    /\ calls' = Append(calls, [NoCall EXCEPT !.op = op, !.issue = CurrentTask.number,
                                             !.comment = comment, !.ok = r.ok])
    /\ faults' = faults \cup Fault(outcome)
    /\ IF r.raised THEN Raise
       ELSE Dispatch(todo, Append(action_summary, DoneLine(text, CurrentTask)))
    /\ UNCHANGED <<ai_tasks, analysis_result, next_pr, fn_vars, srv_vars, life_vars, race_vars>>

(* lines 389-397: the follow-up comment of a code-change task *)
AddFollowUpComment ==
    /\ pc = "add_issue_comment"
    /\ \E outcome \in Outcomes :
        ExecutorCall(add_issue_comment(outcome), outcome, "add_issue_comment",
                     FollowUpComment(pr_result), AddedCommentText)

(* lines 399-403 *)
CloseInvalid ==
    /\ pc = "close_invalid"
    /\ \E outcome \in Outcomes :
        ExecutorCall(close_issue(outcome), outcome, "close_issue",
                     [NoComment EXCEPT !.text = InvalidCommentText], ClosedInvalidText)

(* lines 405-409 *)
CloseCompleted ==
    /\ pc = "close_completed"
    /\ \E outcome \in Outcomes :
        ExecutorCall(close_issue(outcome), outcome, "close_issue",
                     [NoComment EXCEPT !.text = CompletedCommentText], ClosedCompletedText)

(* lines 411-415 *)
AddAnalysisComment ==
    /\ pc = "analysis_comment"
    /\ \E outcome \in Outcomes :
        ExecutorCall(add_issue_comment(outcome), outcome, "add_issue_comment",
                     AnalysisComment(analysis_result), AddedAnalysisText)

(* return "\n".join(action_summary) *)
Return ==
    /\ pc = "loop"
    /\ idx > Len(ai_tasks)
    /\ pc' = "returned"
    /\ UNCHANGED <<ai_tasks, analysis_result, idx, todo, action_summary, calls, code_blocks,
                   branch_name, block_i, files_created, pr_result, next_pr, faults,
                   fn_vars, srv_vars, life_vars, race_vars>>

Next ==
    \/ StartIssue
    \/ CreateBranch
    \/ CreateFile
    \/ CreatePullRequest
    \/ AddFollowUpComment
    \/ CloseInvalid
    \/ CloseCompleted
    \/ AddAnalysisComment
    \/ Return

Spec == Init /\ [][Next]_vars

(* ------------------------------------------------------------------ *)
(* Reading the call history and the action log                         *)
(* ------------------------------------------------------------------ *)

(* the calls made while issue n was being processed *)
CallsOf(n) == SelectSeq(calls, LAMBDA c : c.issue = n)

HasCall(n, op) == \E j \in 1..Len(calls) : calls[j].issue = n /\ calls[j].op = op

HasGoodCall(n, op) ==
    \E j \in 1..Len(calls) : calls[j].issue = n /\ calls[j].op = op /\ calls[j].ok

PullRequestOps == {"create_branch", "create_file", "create_pull_request"}

(* the action a call belongs to, read off its operation and its comment *)
ActionOf(c) ==
    IF c.op \in PullRequestOps THEN "pull_request"
    ELSE IF c.op = "add_issue_comment"
              /\ c.comment.text \in {PRLinkCommentText, PRIssueCommentText}
    THEN "pull_request"
    ELSE IF c.op = "add_issue_comment" /\ c.comment.text = AnalysisCommentText
    THEN "analysis_comment"
    ELSE IF c.op = "close_issue" /\ c.comment.text = InvalidCommentText
    THEN "close_invalid"
    ELSE IF c.op = "close_issue" /\ c.comment.text = CompletedCommentText
    THEN "close_completed"
    ELSE "none"

ActionsTaken(n) == {ActionOf(calls[j]) : j \in {i \in 1..Len(calls) : calls[i].issue = n}}

(* position of the "Processing Issue #n" line, 0 if there is none *)
ProcessingAt(n) ==
    IF \E i \in 1..Len(action_summary) :
          action_summary[i].text = ProcessingText /\ action_summary[i].issue = n
    THEN CHOOSE i \in 1..Len(action_summary) :
          action_summary[i].text = ProcessingText /\ action_summary[i].issue = n
    ELSE 0

(* the lines logged for issue n after its "Processing" line *)
Segment(n) ==
    LET p == ProcessingAt(n)
        later == {i \in (p + 1)..Len(action_summary) :
                     action_summary[i].text = ProcessingText}
        q == IF later = {} THEN Len(action_summary) + 1
             ELSE CHOOSE i \in later : \A j \in later : i <= j
    IN IF p = 0 THEN <<>> ELSE SubSeq(action_summary, p + 1, q - 1)

(* the k-th task has been handled completely *)
Finished(k) == k < idx

(* the pull-request attempt of the k-th task has ended (line 386 returned) *)
AttemptEnded(k) == k < idx \/ (k = idx /\ pc \in {"add_issue_comment", "raised"})

HasMark(line, mark) == \E i \in 1..Len(line.marks) : line.marks[i] = mark

FailureTexts == {NoCodeText, BranchFailText, NoFilesText, PRFailText, PRErrorText}

(* first match in the order code-change, invalid, completed, default,     *)
(* computed on the lower-cased "title body" text                           *)
FirstMatch(task) ==
    LET text == Lower(task.title \o <<" ">> \o task.body)
        hit(kws) == \E k \in 1..Len(kws) : Contains(text, kws[k])
    IN IF hit(code_keywords) THEN "pull_request"
       ELSE IF hit(invalid_keywords) THEN "close_invalid"
       ELSE IF hit(completed_keywords) THEN "close_completed"
       ELSE "analysis_comment"

(* the classifier, the first match, the branch name and the extracted     *)
(* blocks, tabulated over the issues and the texts                         *)
IsCodeChange == [n \in IssueNumbers |-> _requires_code_changes(Issue(n))]

IsInvalid == [n \in IssueNumbers |-> _is_invalid_issue(Issue(n))]

IsCompleted == [n \in IssueNumbers |-> _is_completed_issue(Issue(n))]

FirstMatchOf == [n \in IssueNumbers |-> FirstMatch(Issue(n))]

BranchNameOf == [n \in IssueNumbers |-> BranchName(Issue(n))]

BlocksOf == [t \in AnalysisTexts |-> extract_code_blocks(t)]

(* ------------------------------------------------------------------ *)
(* Properties                                                         *)
(* ------------------------------------------------------------------ *)

(* C1: every issue handed to _take_action_on_issues gets exactly one of    *)
(* the four actions: once it has been handled its calls belong to one      *)
(* action, at no time do its calls belong to two, and no issue has both a  *)
(* close_issue and a create_branch call.                                   *)
C1_ExactlyOneAction ==
    \A k \in 1..Len(ai_tasks) :
        LET n == ai_tasks[k]
        IN /\ Cardinality(ActionsTaken(n)) <= 1
           /\ "none" \notin ActionsTaken(n)
           /\ Finished(k) => Cardinality(ActionsTaken(n)) = 1
           /\ ~(HasCall(n, "close_issue") /\ HasCall(n, "create_branch"))

(* an issue matching the invalid and the completed keywords and a          *)
(* code-change issue have both been handled                                *)
C1_Witness ==
    /\ pc = "returned"
    /\ \E k \in 1..Len(ai_tasks) :
          /\ IsInvalid[ai_tasks[k]]
          /\ IsCompleted[ai_tasks[k]]
          /\ HasCall(ai_tasks[k], "close_issue")
    /\ \E k \in 1..Len(ai_tasks) : HasCall(ai_tasks[k], "create_branch")

C3_CompletedIssueIsClosed ==
    \A k \in 1..Len(ai_tasks) :
        LET n == ai_tasks[k]
        IN (/\ n = 125
            /\ Finished(k)
            /\ IsCompleted[n]
            /\ ~IsInvalid[n])
           => /\ Len(SelectSeq(CallsOf(n), LAMBDA c : c.op = "close_issue")) = 1
              /\ \A j \in 1..Len(calls) :
                    (calls[j].issue = n /\ calls[j].op = "close_issue")
                    => calls[j].comment.text = CompletedCommentText
              /\ \E i \in 1..Len(action_summary) :
                    /\ action_summary[i].text = ClosedCompletedText
                    /\ action_summary[i].issue = n
              /\ \A op \in PullRequestOps : ~HasCall(n, op)

(* C4: within one code-change issue the calls come in the order            *)
(* create_branch, every create_file, create_pull_request;                  *)
(* create_pull_request needs a successful create_branch and a successful   *)
(* create_file before it; with zero files created the attempt ends with a  *)
(* failure result and no create_pull_request call.                         *)
C4_BranchFilesThenPR ==
    /\ \A j \in 1..Len(calls) :
        LET n == calls[j].issue
            before(op) == \E i \in 1..(j - 1) : calls[i].issue = n /\ calls[i].op = op
            goodBefore(op) ==
                \E i \in 1..(j - 1) : calls[i].issue = n /\ calls[i].op = op /\ calls[i].ok
        IN /\ calls[j].op = "create_branch" => \A op \in PullRequestOps : ~before(op)
           /\ calls[j].op = "create_file" =>
                 goodBefore("create_branch") /\ ~before("create_pull_request")
           /\ calls[j].op = "create_pull_request" =>
                 /\ goodBefore("create_branch")
                 /\ goodBefore("create_file")
                 /\ ~before("create_pull_request")
    /\ \A k \in 1..Len(ai_tasks) :
        LET n == ai_tasks[k]
        IN (/\ AttemptEnded(k)
            /\ HasGoodCall(n, "create_branch")
            /\ ~HasGoodCall(n, "create_file"))
           => /\ ~HasCall(n, "create_pull_request")
              /\ Segment(n) # <<>>
              /\ Segment(n)[1].text = NoFilesText
              /\ Segment(n)[1].issue = n
              /\ HasMark(Segment(n)[1], CrossMark)

(* one issue ended with zero files after a created branch, another got a   *)
(* failed and a successful create_file and then the pull request           *)
C4_Witness ==
    /\ \E k \in 1..Len(ai_tasks) :
          /\ AttemptEnded(k)
          /\ HasGoodCall(ai_tasks[k], "create_branch")
          /\ HasCall(ai_tasks[k], "create_file")
          /\ ~HasGoodCall(ai_tasks[k], "create_file")
    /\ \E j \in 1..Len(calls) :
          /\ calls[j].op = "create_pull_request"
          /\ \E i \in 1..(j - 1) :
                /\ calls[i].issue = calls[j].issue
                /\ calls[i].op = "create_file"
                /\ ~calls[i].ok

(* C5: when create_branch fails for an issue no create_file and no         *)
(* create_pull_request call is made for it, and the result line names the  *)
(* issue number and the branch name that failed.                           *)
C5_BranchFailureAborts ==
    \A k \in 1..Len(ai_tasks) :
        \A j \in 1..Len(calls) :
            LET n == ai_tasks[k]
            IN (calls[j].issue = n /\ calls[j].op = "create_branch" /\ ~calls[j].ok)
               => /\ ~HasCall(n, "create_file")
                  /\ ~HasCall(n, "create_pull_request")
                  /\ AttemptEnded(k) =>
                        /\ Segment(n) # <<>>
                        /\ Segment(n)[1].text = BranchFailText
                        /\ Segment(n)[1].issue = n
                        /\ Segment(n)[1].branch = calls[j].branch
                        /\ calls[j].branch = BranchNameOf[n]

(* a create_branch call failed and the issue has been handled *)
C5_Witness ==
    \E k \in 1..Len(ai_tasks) :
        /\ Finished(k)
        /\ HasCall(ai_tasks[k], "create_branch")
        /\ ~HasGoodCall(ai_tasks[k], "create_branch")

(* C6: when the generated text has no code block, a code-change issue      *)
(* gets no create_branch, create_file or create_pull_request call and the  *)
(* log has the "No code implementation found" line for it.                 *)
C6_NoCodeNoBranch ==
    BlocksOf[analysis_result] = <<>>
    => /\ \A j \in 1..Len(calls) : calls[j].op \notin PullRequestOps
       /\ \A k \in 1..Len(ai_tasks) :
             (AttemptEnded(k) /\ IsCodeChange[ai_tasks[k]])
             => \E i \in 1..Len(Segment(ai_tasks[k])) :
                   Segment(ai_tasks[k])[i].text = NoCodeText

(* a code-change issue was handled with a text that has no code block *)
C6_Witness ==
    /\ BlocksOf[analysis_result] = <<>>
    /\ \E k \in 1..Len(ai_tasks) :
          Finished(k) /\ IsCodeChange[ai_tasks[k]]

(* what the failure comment must describe, given the calls of the attempt *)
ExpectedFailure(n) ==
    IF ~HasCall(n, "create_branch") THEN NoCodeText
    ELSE IF ~HasGoodCall(n, "create_branch") THEN BranchFailText
    ELSE IF ~HasGoodCall(n, "create_file") THEN NoFilesText
    ELSE PRFailText

(* C7: every code-change issue gets exactly one add_issue_comment call,    *)
(* made after the pull-request attempt ended, in every outcome; when the   *)
(* pull request was created the comment carries its URL, otherwise it      *)
(* describes the failure.                                                  *)
C7_OneFollowUpComment ==
    \A k \in 1..Len(ai_tasks) :
        LET n == ai_tasks[k]
            cs == CallsOf(n)
            comments == {j \in 1..Len(cs) : cs[j].op = "add_issue_comment"}
        IN IsCodeChange[n]
           => /\ Cardinality(comments) <= 1
              /\ \A j \in comments : j = Len(cs)
              /\ Finished(k) =>
                    /\ Cardinality(comments) = 1
                    /\ LET c == cs[Len(cs)]
                       IN IF HasGoodCall(n, "create_pull_request")
                          THEN /\ c.comment.text = PRLinkCommentText
                               /\ c.comment.html_url # NoUrl
                               /\ \E j \in 1..Len(cs) :
                                     /\ cs[j].op = "create_pull_request"
                                     /\ cs[j].pr.html_url = c.comment.html_url
                          ELSE /\ c.comment.text = PRIssueCommentText
                               /\ c.comment.detail.text = ExpectedFailure(n)

(* two code-change issues were handled, one with its pull request created  *)
(* and one whose create_pull_request failed                                *)
C7_Witness ==
    /\ pc = "returned"
    /\ \E k \in 1..Len(ai_tasks) : HasGoodCall(ai_tasks[k], "create_pull_request")
    /\ \E k \in 1..Len(ai_tasks) :
          /\ HasCall(ai_tasks[k], "create_pull_request")
          /\ ~HasGoodCall(ai_tasks[k], "create_pull_request")

(* C8: the log has an entry for every issue attempted and every step line  *)
(* carries an unambiguous marker: a failed step is never logged with the   *)
(* success marker and no line carries both markers.                        *)
C8_UnambiguousMarkers ==
    /\ \A k \in 1..Len(ai_tasks) :
          (k < idx \/ (k = idx /\ pc # "loop")) => ProcessingAt(ai_tasks[k]) # 0
    /\ \A i \in 1..Len(action_summary) :
          LET line == action_summary[i]
          IN /\ ~(HasMark(line, CheckMark) /\ HasMark(line, CrossMark))
             /\ line.text \in FailureTexts => ~HasMark(line, CheckMark)

(* the words of the log line written after a call of the executor *)
StepText(c) ==
    IF c.op = "close_issue" /\ c.comment.text = InvalidCommentText THEN ClosedInvalidText
    ELSE IF c.op = "close_issue" THEN ClosedCompletedText
    ELSE IF c.comment.text = AnalysisCommentText THEN AddedAnalysisText
    ELSE AddedCommentText

(* C9: when close_issue or add_issue_comment returns false the operation   *)
(* is reported as failed in the log for that issue, and the executor goes  *)
(* on to the next issue.                                                   *)
C9_SoftFailureReported ==
    \A k \in 1..Len(ai_tasks) :
        \A j \in 1..Len(calls) :
            LET n == ai_tasks[k]
                c == calls[j]
            IN (/\ Finished(k)
                /\ c.issue = n
                /\ c.op \in {"close_issue", "add_issue_comment"}
                /\ ~c.ok)
               => /\ \E i \in 1..Len(Segment(n)) :
                        /\ Segment(n)[i].text = StepText(c)
                        /\ HasMark(Segment(n)[i], CrossMark)
                  /\ \A i \in 1..Len(Segment(n)) :
                        Segment(n)[i].text = StepText(c)
                        => ~HasMark(Segment(n)[i], CheckMark)
                  /\ pc # "raised"

(* C10: for any pattern of gateway failures _take_action_on_issues does    *)
(* not raise and returns only after every issue of the list was           *)
(* processed, with a "Processing Issue" line and a call for each.          *)
C10_NeverRaisesProcessesAll ==
    /\ pc # "raised"
    /\ pc = "returned" =>
          /\ idx = Len(ai_tasks) + 1
          /\ \A k \in 1..Len(ai_tasks) :
                /\ ProcessingAt(ai_tasks[k]) # 0
                /\ CallsOf(ai_tasks[k]) # <<>>

(* it returned after the first call of the first issue failed and both a   *)
(* non-200 answer and a transport exception happened                       *)
C10_Witness ==
    /\ pc = "returned"
    /\ Len(ai_tasks) = MaxIssues
    /\ ~calls[1].ok
    /\ {"non200", "exception"} \subseteq faults
    /\ \A k \in 1..Len(ai_tasks) : ProcessingAt(ai_tasks[k]) # 0

(* position of issue n in ai_tasks *)
PosOf(n) == CHOOSE k \in 1..Len(ai_tasks) : ai_tasks[k] = n

(* the log lines that name an issue *)
IssueLines == SelectSeq(action_summary, LAMBDA line : line.issue # 0)

(* C11: issues are processed strictly one after the other in the order of  *)
(* the list: the calls, each recorded when it returns, never go back to an *)
(* earlier issue, all calls of the issues before the current one are made  *)
(* before the loop reaches it, and the log entries follow the same order.  *)
C11_SequentialInListOrder ==
    /\ \A i, j \in 1..Len(calls) :
          i < j => PosOf(calls[i].issue) <= PosOf(calls[j].issue)
    /\ \A j \in 1..Len(calls) : PosOf(calls[j].issue) <= idx
    /\ \A i, j \in 1..Len(IssueLines) :
          i < j => PosOf(IssueLines[i].issue) <= PosOf(IssueLines[j].issue)
    /\ \A k \in 1..Len(ai_tasks) :
          (k < idx /\ k + 1 <= Len(ai_tasks) /\ ProcessingAt(ai_tasks[k + 1]) # 0)
          => ProcessingAt(ai_tasks[k]) < ProcessingAt(ai_tasks[k + 1])

(* two issues were handled, each with more than one call *)
C11_Witness ==
    /\ pc = "returned"
    /\ Len(ai_tasks) >= 2
    /\ Len(CallsOf(ai_tasks[1])) >= 2
    /\ Len(CallsOf(ai_tasks[2])) >= 2

(* "ai-task-123-implement-user-authentication" *)
ExpectedBranch123 ==
    <<"a", "i", "-", "t", "a", "s", "k", "-", "1", "2", "3", "-",
      "i", "m", "p", "l", "e", "m", "e", "n", "t", "-", "u", "s", "e", "r", "-",
      "a", "u", "t", "h", "e", "n", "t", "i", "c", "a", "t", "i", "o", "n">>

(* C17: for issue #123 "Implement user authentication API" the branch      *)
(* that is created is named exactly                                        *)
(* "ai-task-123-implement-user-authentication", without a trailing hyphen. *)
C17_Branch123Name ==
    \A j \in 1..Len(calls) :
        (calls[j].op = "create_branch" /\ calls[j].issue = 123)
        => calls[j].branch = ExpectedBranch123

(* C19: when the branch and the files were created and                     *)
(* create_pull_request fails, the log reports the pull-request failure for *)
(* the issue and the only call made for it afterwards is the follow-up     *)
(* comment: nothing deletes or undoes the branch or the files.             *)
C19_NoCleanupAfterPRFailure ==
    \A k \in 1..Len(ai_tasks) :
        LET n == ai_tasks[k]
            cs == CallsOf(n)
        IN \A j \in 1..Len(cs) :
              (cs[j].op = "create_pull_request" /\ ~cs[j].ok)
              => /\ \A i \in (j + 1)..Len(cs) :
                       /\ cs[i].op = "add_issue_comment"
                       /\ cs[i].comment.text = PRIssueCommentText
                       /\ i = j + 1
                 /\ Finished(k) => Len(cs) = j + 1
                 /\ AttemptEnded(k) =>
                       \E i \in 1..Len(Segment(n)) :
                          /\ Segment(n)[i].text = PRFailText
                          /\ Segment(n)[i].issue = n
                          /\ HasMark(Segment(n)[i], CrossMark)

(* every create_file of an issue succeeded, its create_pull_request        *)
(* failed, and the issue has been handled                                  *)
C19_Witness ==
    \E k \in 1..Len(ai_tasks) :
        /\ Finished(k)
        /\ HasCall(ai_tasks[k], "create_pull_request")
        /\ ~HasGoodCall(ai_tasks[k], "create_pull_request")
        /\ \A j \in 1..Len(calls) :
              (calls[j].issue = ai_tasks[k] /\ calls[j].op = "create_file") => calls[j].ok

(* C20: whenever the branch of an issue was created and a create_file call *)
(* for it fails, the log has a failure entry for that issue naming the     *)
(* file-creation step, also when other files were created and the pull     *)
(* request was opened.                                                     *)
C20_FileFailureLogged ==
    \A k \in 1..Len(ai_tasks) :
        LET n == ai_tasks[k]
        IN (/\ AttemptEnded(k)
            /\ HasGoodCall(n, "create_branch")
            /\ \E j \in 1..Len(calls) :
                  calls[j].issue = n /\ calls[j].op = "create_file" /\ ~calls[j].ok)
           => \E i \in 1..Len(Segment(n)) :
                 /\ HasMark(Segment(n)[i], CrossMark)
                 /\ Segment(n)[i].text = NoFilesText

(* ------------------------------------------------------------------ *)
(* The branch name on its own                                          *)
(* ------------------------------------------------------------------ *)

BranchNumbers == {1, 42, 123, 1000}

BranchTitles == {
    <<"2", "3">>,
    <<"I", "m", "p", "l", "e", "m", "e", "n", "t", " ", "u", "s", "e", "r", " ", "a", "u", "t", "h",
        "e", "n", "t", "i", "c", "a", "t", "i", "o", "n", " ", "A", "P", "I">>,
    <<"F", "i", "x", " ", "b", "u", "g", " ", "#", "1", "2", ":", " ", "c", "r", "a", "s", "h", " ",
        "o", "n", " ", "s", "t", "a", "r", "t", "-", "u", "p", "!">>,
    <<>>,
    <<"A", "d", "d", " ", "s", "n", "a", "k", "e", "_", "c", "a", "s", "e", " ", "&", " ", "C", "a",
        "m", "e", "l", "C", "a", "s", "e", " ", "s", "u", "p", "p", "o", "r", "t">>,
    <<"U", "P", "P", "E", "R", " ", "l", "o", "w", "e", "r", " ", "1", "2", "3">>,
    <<"a">>,
    <<"A", " ", "v", "e", "r", "y", " ", "l", "o", "n", "g", " ", "t", "i", "t", "l", "e", " ", "t",
        "h", "a", "t", " ", "g", "o", "e", "s", " ", "f", "a", "r", " ", "b", "e", "y", "o", "n", "d",
        " ", "t", "h", "e", " ", "t", "h", "i", "r", "t", "y", " ", "c", "h", "a", "r", "a", "c", "t",
        "e", "r", " ", "c", "a", "p">>,
    <<" ", " ", "s", "p", "a", "c", "e", "s", " ", " ", "a", "n", "d", "\t", "t", "a", "b", "s", " ",
        " ">>
  }

BranchBodies == {<<>>, <<"C", "r", "e", "a", "t", "e", " ", "t", "h", "e", " ", "e", "n", "d", "p", "o", "i", "n", "t",
      ".">>}

(* the issues whose branch name is built *)
BranchInputs ==
    {GitHubIssue(n, t, b, "open") : n \in BranchNumbers, t \in BranchTitles, b \in BranchBodies}

BranchInit ==
    /\ ExecUnused
    /\ ServerUnused
    /\ LifeUnused
    /\ RaceUnused
    /\ fn_pc = "ready"
    /\ fn_in \in BranchInputs
    /\ fn_out = <<>>

(* branch_name = ...; branch_name = ''.join(...) *)
BuildBranchName ==
    /\ fn_pc = "ready"
    /\ fn_out' = BranchName(fn_in)
    /\ fn_pc' = "done"
    /\ UNCHANGED <<fn_in, exec_vars, srv_vars, life_vars, race_vars>>

BranchNext == BuildBranchName

BranchSpec == BranchInit /\ [][BranchNext]_vars

BranchPrefix(number) == <<"a", "i", "-", "t", "a", "s", "k", "-">> \o Str(number) \o <<"-">>

(* C16: the branch name built for an issue is the same whatever the issue's *)
(* body is (it depends on the number and the title only), is made of        *)
(* alphanumeric characters and hyphens only, and is no longer than 30       *)
(* characters plus the length of the prefix ai-task-<number>-.              *)
C16_BranchNameSanitized ==
    fn_pc = "done" =>
        /\ fn_out = BranchName(GitHubIssue(fn_in.number, fn_in.title, <<>>, "closed"))
        /\ \A i \in 1..Len(fn_out) : IsAlnum(fn_out[i]) \/ fn_out[i] = "-"
        /\ Len(fn_out) <= 30 + Len(BranchPrefix(fn_in.number))

(* a title longer than the cut, with a body, whose name reaches the bound *)
C16_Witness ==
    /\ fn_pc = "done"
    /\ Len(fn_in.title) > 30
    /\ fn_in.body # <<>>
    /\ Len(fn_out) = 30 + Len(BranchPrefix(fn_in.number))

(* ------------------------------------------------------------------ *)
(* extract_code_blocks on its own                                      *)
(* ------------------------------------------------------------------ *)

MaxBlocks == 2

BlockTags == {<<"p", "y", "t", "h", "o", "n">>, <<"j", "s">>, <<"c", "+", "+">>}

BlockContents == {<<"x", " ", "=", " ", "1">>, <<" ", " ", "y", "(", ")", "\n">>, <<>>}

(* a fenced block: the fence and the tag, the content, the closing fence *)
FencedBlock(b) == Fence \o b.language \o <<"\n">> \o b.code \o <<"\n">> \o Fence

(* the blocks one after the other, each on lines of its own *)
RECURSIVE Markdown(_)
Markdown(blocks) ==
    IF blocks = <<>> THEN <<>>
    ELSE IF Len(blocks) = 1 THEN FencedBlock(blocks[1])
    ELSE FencedBlock(blocks[1]) \o <<"\n">> \o Markdown(Tail(blocks))

BlockLists ==
    UNION {[1..n -> [language : BlockTags, code : BlockContents]] : n \in 1..MaxBlocks}

ExtractInit ==
    /\ ExecUnused
    /\ ServerUnused
    /\ LifeUnused
    /\ RaceUnused
    /\ fn_pc = "ready"
    /\ fn_in \in BlockLists
    /\ fn_out = <<>>

(* code_blocks = self.extract_code_blocks(text) *)
ExtractBlocks ==
    /\ fn_pc = "ready"
    /\ fn_out' = extract_code_blocks(Markdown(fn_in))
    /\ fn_pc' = "done"
    /\ UNCHANGED <<fn_in, exec_vars, srv_vars, life_vars, race_vars>>

ExtractNext == ExtractBlocks

ExtractSpec == ExtractInit /\ [][ExtractNext]_vars

(* C18: extract_code_blocks applied to the text built from N fenced blocks  *)
(* with tags L1..LN returns exactly N blocks, in the order L1..LN, each     *)
(* with the block's content stripped of leading and trailing whitespace.    *)
C18_RoundTrip ==
    fn_pc = "done" =>
        fn_out = [k \in 1..Len(fn_in) |->
                    [language |-> fn_in[k].language, code |-> Strip(fn_in[k].code)]]

(* ------------------------------------------------------------------ *)
(* GitHubMCPClient, one call at a time, against any answer of /call    *)
(* ------------------------------------------------------------------ *)

ClientOps == {"get_issues_by_label", "get_all_open_issues", "get_issue_details", "close_issue",
              "add_issue_comment", "create_pull_request", "create_branch", "create_file"}

(* Return values.  One record shape for every Python value a method can  *)
(* return: None, a bool, a list of issues, an issue, the pull request    *)
(* dictionary.                                                            *)
PyValue(kind, flag, items) == [kind |-> kind, flag |-> flag, items |-> items]

PyNone == PyValue("None", FALSE, <<>>)

PyBool(b) == PyValue("bool", b, <<>>)

PyList(items) == PyValue("list", FALSE, items)

PyIssue == PyValue("GitHubIssue", FALSE, <<>>)

PyDict == PyValue("dict", FALSE, <<>>)

(* how a piece of code ends: with a value, or with an exception *)
Returns(value) == [raised |-> FALSE, value |-> value]

Raises == [raised |-> TRUE, value |-> PyNone]

(* The body of the answer, as response.json() gives it:                   *)
(*   not_json    json() raises                                            *)
(*   not_object  a JSON list                                              *)
(*   empty       {}                                                       *)
(*   error       {"result": null, "error": "..."}, MCPResponse(error=...) *)
(*   no_key      a result dictionary without the key the method reads     *)
(*   result      a result dictionary with the key; payload is its value   *)
JsonKinds == {"not_json", "not_object", "empty", "error", "no_key", "result"}

(* payloads GitHubIssue accepts *)
ValidIssues == {"issue 123", "issue 124"}

(* issue payloads: those GitHubIssue accepts, a mapping it rejects, a JSON null *)
IssuePayloads == ValidIssues \cup {"invalid", "null"}

MaxPayload == 2

Payloads(op) ==
    IF op \in {"get_issues_by_label", "get_all_open_issues"}
    THEN UNION {[1..n -> IssuePayloads] : n \in 0..MaxPayload}
    ELSE IF op = "get_issue_details" THEN {<<p>> : p \in IssuePayloads}
    ELSE IF op = "create_pull_request" THEN {<<"pull_request">>, <<"null">>}
    ELSE {<<"true">>, <<"false">>}

Statuses == {200, 404, 500}

NoAnswer == [post |-> "exception", status |-> 0, json |-> "not_json", payload |-> <<>>]

(* what session.post and the response can give for a call of op *)
Answers(op) ==
    {NoAnswer}
      \cup {[post |-> "answered", status |-> s, json |-> "error", payload |-> <<>>] :
              s \in Statuses \ {200}}
      \cup {[post |-> "answered", status |-> 200, json |-> j, payload |-> <<>>] :
              j \in JsonKinds \ {"result"}}
      \cup {[post |-> "answered", status |-> 200, json |-> "result", payload |-> p] :
              p \in Payloads(op)}

(* a call: the method, its repository argument, self.session, the answer *)
ClientCalls ==
    UNION {[op : {o}, repository : {"owner/repo", "repo"}, session : {"None", "open", "closed"},
            answer : Answers(o)] : o \in ClientOps}

(* the method without its except clause *)
Guarded_none(r, failure) == r

(* try: ... except Exception: return failure *)
Guarded(r, failure) == IF r.raised THEN Returns(failure) ELSE r

(* Up to `if response.status == 200`: repository.split('/')[1] raises for *)
(* a repository without a slash, post raises on a closed session or a     *)
(* transport error; then `otherwise` for another status, `on200` for 200. *)
Posted(call, otherwise, on200) ==
    IF call.repository # "owner/repo" THEN Raises
    ELSE IF call.session = "closed" \/ call.answer.post = "exception" THEN Raises
    ELSE IF call.answer.status # 200 THEN Returns(otherwise)
    ELSE IF call.answer.json = "not_json" THEN Raises
    ELSE on200

(* for issue_data in data["result"]["issues"]: a payload GitHubIssue      *)
(* rejects is skipped; a null makes the handler's issue_data.get raise.   *)
RECURSIVE ParseIssues(_, _)
ParseIssues(payload, issues) ==
    IF payload = <<>> THEN Returns(PyList(issues))
    ELSE IF Head(payload) \in ValidIssues
    THEN ParseIssues(Tail(payload), Append(issues, Head(payload)))
    ELSE IF Head(payload) = "invalid" THEN ParseIssues(Tail(payload), issues)
    ELSE Raises

(* if "result" in data and "issues" in data["result"]: ...; return issues *)
IssuesOf(answer) ==
    IF answer.json \in {"not_object", "empty", "no_key"} THEN Returns(PyList(<<>>))
    ELSE IF answer.json = "error" THEN Raises
    ELSE ParseIssues(answer.payload, <<>>)

(* if "result" in data and "issue" in data["result"]: return the GitHubIssue *)
IssueOf(answer) ==
    IF answer.json \in {"not_object", "empty", "no_key"} THEN Returns(PyNone)
    ELSE IF answer.json = "error" THEN Raises
    ELSE IF answer.payload[1] \in ValidIssues THEN Returns(PyIssue)
    ELSE Raises

(* data.get("result", {}).get("success", False) *)
SuccessOf(answer) ==
    IF answer.json \in {"not_object", "error"} THEN Raises
    ELSE IF answer.json \in {"empty", "no_key"} THEN Returns(PyBool(FALSE))
    ELSE Returns(PyBool(answer.payload[1] = "true"))

(* data.get("result", {}).get("pull_request") *)
PullRequestOf(answer) ==
    IF answer.json \in {"not_object", "error"} THEN Raises
    ELSE IF answer.json \in {"empty", "no_key"} THEN Returns(PyNone)
    ELSE IF answer.payload[1] = "pull_request" THEN Returns(PyDict)
    ELSE Returns(PyNone)

GitHubMCPClient_get_issues_by_label(call) ==
    Guarded(Posted(call, PyList(<<>>), IssuesOf(call.answer)), PyList(<<>>))

GitHubMCPClient_get_all_open_issues(call) ==
    Guarded(Posted(call, PyList(<<>>), IssuesOf(call.answer)), PyList(<<>>))

GitHubMCPClient_get_issue_details(call) ==
    Guarded(Posted(call, PyNone, IssueOf(call.answer)), PyNone)

GitHubMCPClient_close_issue(call) ==
    Guarded(Posted(call, PyBool(FALSE), SuccessOf(call.answer)), PyBool(FALSE))

GitHubMCPClient_add_issue_comment(call) ==
    Guarded(Posted(call, PyBool(FALSE), SuccessOf(call.answer)), PyBool(FALSE))

GitHubMCPClient_create_pull_request(call) ==
    Guarded(Posted(call, PyNone, PullRequestOf(call.answer)), PyNone)

GitHubMCPClient_create_branch(call) ==
    Guarded(Posted(call, PyBool(FALSE), SuccessOf(call.answer)), PyBool(FALSE))

GitHubMCPClient_create_file(call) ==
    Guarded(Posted(call, PyBool(FALSE), SuccessOf(call.answer)), PyBool(FALSE))

GitHubMCPClient(call) ==
    CASE call.op = "get_issues_by_label" -> GitHubMCPClient_get_issues_by_label(call)
      [] call.op = "get_all_open_issues" -> GitHubMCPClient_get_all_open_issues(call)
      [] call.op = "get_issue_details" -> GitHubMCPClient_get_issue_details(call)
      [] call.op = "close_issue" -> GitHubMCPClient_close_issue(call)
      [] call.op = "add_issue_comment" -> GitHubMCPClient_add_issue_comment(call)
      [] call.op = "create_pull_request" -> GitHubMCPClient_create_pull_request(call)
      [] call.op = "create_branch" -> GitHubMCPClient_create_branch(call)
      [] call.op = "create_file" -> GitHubMCPClient_create_file(call)

ClientInit ==
    /\ ExecUnused
    /\ ServerUnused
    /\ LifeUnused
    /\ RaceUnused
    /\ fn_pc = "ready"
    /\ fn_in \in ClientCalls
    /\ fn_out = <<>>

(* await client.<op>(...) *)
ClientCall ==
    /\ fn_pc = "ready"
    /\ fn_out' = GitHubMCPClient(fn_in)
    /\ fn_pc' = "done"
    /\ UNCHANGED <<fn_in, exec_vars, srv_vars, life_vars, race_vars>>

ClientNext == ClientCall

ClientSpec == ClientInit /\ [][ClientNext]_vars

(* the failure value the docstring of each method names *)
FailureValue(op) ==
    IF op \in {"get_issues_by_label", "get_all_open_issues"} THEN PyList(<<>>)
    ELSE IF op \in {"get_issue_details", "create_pull_request"} THEN PyNone
    ELSE PyBool(FALSE)

(* no answer, an answer with another status than 200, or a body without a *)
(* usable result                                                           *)
TransportFailure(call) ==
    \/ call.session = "closed"
    \/ call.answer.post = "exception"
    \/ call.answer.status # 200
    \/ call.answer.json # "result"

(* C14: no operation of GitHubMCPClient raises, and on a transport failure *)
(* (no answer, a status other than 200, a body without a usable result such *)
(* as an error envelope) each returns its failure value: the empty list for *)
(* the two list operations, None for get_issue_details and                  *)
(* create_pull_request, False for the four others.                          *)
C14_FailureValueNeverRaises ==
    fn_pc = "done" =>
        /\ ~fn_out.raised
        /\ TransportFailure(fn_in) => fn_out.value = FailureValue(fn_in.op)

(* the server answered 200 with an error envelope and close_issue gave False *)
C14_Witness ==
    /\ fn_pc = "done"
    /\ fn_in.op = "close_issue"
    /\ fn_in.repository = "owner/repo"
    /\ fn_in.session = "open"
    /\ fn_in.answer.post = "answered"
    /\ fn_in.answer.status = 200
    /\ fn_in.answer.json = "error"
    /\ fn_out = Returns(PyBool(FALSE))

(* ------------------------------------------------------------------ *)
(* The MCP server: MCPHandler.handle_call over GitHubMCPServer         *)
(* ------------------------------------------------------------------ *)

(* calls the server answers in one run, one after the other *)
MaxRequests == 2

RecognizedMethods == {"github.list_issues", "github.get_issue", "github.close_issue",
                      "github.add_issue_comment", "github.create_pull_request",
                      "github.create_branch", "github.create_file"}

(* method names the chain of comparisons does not know *)
OtherMethods == {"github.delete_issue", "close_issue", ""}

(* The body posted to /call.  json says what request.json() and           *)
(* MCPRequest(...) make of it:                                             *)
(*   not_json    request.json() raises                                    *)
(*   not_object  a JSON value that is no mapping                          *)
(*   no_method, no_params   MCPRequest rejects the mapping                *)
(*   call        an MCPRequest; complete says whether params holds every  *)
(*               key the method reads with params[...]; comment is        *)
(*               params.get("comment"): None, "" or a text                *)
Body(json, method, complete, comment) ==
    [json |-> json, method |-> method, complete |-> complete, comment |-> comment]

Comments(method) == IF method = "github.close_issue" THEN {"None", "", "text"} ELSE {"None"}

Requests ==
    {Body("not_json", "", FALSE, "None"), Body("not_object", "", FALSE, "None"),
     Body("no_method", "", FALSE, "None")}
      \cup {Body("no_params", m, FALSE, "None") : m \in {"github.close_issue", "close_issue"}}
      \cup UNION {{Body("call", m, c, t) : c \in BOOLEAN, t \in Comments(m)} :
                    m \in RecognizedMethods \cup OtherMethods}

(* MCPResponse: result and error, each None unless given *)
NoResult == [set |-> FALSE, key |-> "", value |-> ""]

Result(key, value) == [set |-> TRUE, key |-> key, value |-> value]

NoError == [set |-> FALSE, text |-> "", arg |-> ""]

Error(text, arg) == [set |-> TRUE, text |-> text, arg |-> arg]

MCPResponse(result, error) == [result |-> result, error |-> error]

(* web.json_response(response.dict(), status=...) *)
JsonResponse(status, body) == [status |-> status, body |-> body]

NoResponse == JsonResponse(0, MCPResponse(NoResult, NoError))

ResultResponse(key, value) == JsonResponse(200, MCPResponse(Result(key, value), NoError))

(* an answer whose error does not name the method *)
UnknownMethodResponse_anonymous(method) ==
    JsonResponse(200, MCPResponse(NoResult, Error("Unknown method: ", "")))

(* else: response = MCPResponse(error=f"Unknown method: {mcp_request.method}") *)
UnknownMethodResponse(method) ==
    JsonResponse(200, MCPResponse(NoResult, Error("Unknown method: ", method)))

(* an except clause that also fills result *)
ExceptionResponse_with_result(text) ==
    JsonResponse(500, MCPResponse(Result("success", "false"), Error(text, "")))

(* except Exception as e: response = MCPResponse(error=str(e)), status 500 *)
ExceptionResponse(text) == JsonResponse(500, MCPResponse(NoResult, Error(text, "")))

(* the exception the first two lines of the try raise, "" if none *)
ParseError(body) ==
    CASE body.json = "not_json" -> "JSONDecodeError"
      [] body.json = "not_object" -> "TypeError"
      [] body.json \in {"no_method", "no_params"} -> "ValidationError"
      [] OTHER -> ""

(* the key of the result mapping of each method *)
ResultKey(method) ==
    CASE method = "github.list_issues" -> "issues"
      [] method = "github.get_issue" -> "issue"
      [] method = "github.create_pull_request" -> "pull_request"
      [] OTHER -> "success"

(* what each GitHubMCPServer method returns when it fails: [], None, False *)
Failed(method) ==
    CASE method = "github.list_issues" -> "[]"
      [] method \in {"github.get_issue", "github.create_pull_request"} -> "None"
      [] OTHER -> "False"

(* what it returns when GitHub answers with the expected status *)
Succeeded(method) ==
    CASE method = "github.list_issues" -> "issues"
      [] method = "github.get_issue" -> "issue"
      [] method = "github.create_pull_request" -> "pr"
      [] OTHER -> "True"

(* the first request of each method *)
FirstStep(method) ==
    CASE method = "github.list_issues" -> "list_issues"
      [] method = "github.get_issue" -> "get_issue"
      [] method = "github.close_issue" -> "close_issue"
      [] method = "github.add_issue_comment" -> "add_issue_comment"
      [] method = "github.create_pull_request" -> "create_pull_request"
      [] method = "github.create_branch" -> "create_branch"
      [] method = "github.create_file" -> "create_file"

(* GitHub's answer to one request: the status the method waits for,       *)
(* another status, or an exception inside the async with                  *)
UpstreamOutcomes == {"success", "status", "exception"}

Upstream(verb, what, outcome) == [verb |-> verb, what |-> what, outcome |-> outcome]

(* close_issue returning what its comment call returned *)
CloseResult_of_comment(outcome) == IF outcome = "success" THEN "True" ELSE "False"

(* await self.add_issue_comment(...) ; return True *)
CloseResult(outcome) == "True"

ServerInit ==
    /\ ExecUnused
    /\ FnUnused
    /\ LifeUnused
    /\ RaceUnused
    /\ srv_pc = "idle"
    /\ srv_session \in {"open", "closed"}
    /\ srv_request = Body("not_json", "", FALSE, "None")
    /\ srv_upstream = <<>>
    /\ srv_response = NoResponse
    /\ srv_handled = 0

(* return web.json_response(...) *)
Respond(response) ==
    /\ srv_response' = response
    /\ srv_pc' = "idle"
    /\ srv_handled' = srv_handled + 1

(* the method goes on to its next request *)
Await(step) ==
    /\ srv_pc' = step
    /\ UNCHANGED <<srv_response, srv_handled>>

(* handle_call up to the first request to GitHub, or to its answer when   *)
(* there is none: the body does not parse, the method is unknown, a        *)
(* params[...] key is missing, or the session is closed or missing.        *)
HandleCall ==
    /\ srv_pc = "idle"
    /\ srv_handled < MaxRequests
    /\ \E body \in Requests :
         /\ srv_request' = body
         /\ srv_upstream' = <<>>
         /\ IF ParseError(body) # "" THEN Respond(ExceptionResponse(ParseError(body)))
            ELSE IF body.method \notin RecognizedMethods
            THEN Respond(UnknownMethodResponse(body.method))
            ELSE IF ~body.complete THEN Respond(ExceptionResponse("KeyError"))
            ELSE IF srv_session = "closed"
            THEN Respond(ResultResponse(ResultKey(body.method), Failed(body.method)))
            ELSE Await(FirstStep(body.method))
    /\ UNCHANGED <<srv_session, exec_vars, fn_vars, life_vars, race_vars>>

(* a method with one request: GitHub answers and the method returns *)
OneRequest(step, verb, what) ==
    /\ srv_pc = step
    /\ \E outcome \in UpstreamOutcomes :
         /\ srv_upstream' = Append(srv_upstream, Upstream(verb, what, outcome))
         /\ Respond(ResultResponse(ResultKey(srv_request.method),
                                   IF outcome = "success" THEN Succeeded(srv_request.method)
                                   ELSE Failed(srv_request.method)))
    /\ UNCHANGED <<srv_session, srv_request, exec_vars, fn_vars, life_vars, race_vars>>

ListIssues == OneRequest("list_issues", "GET", "issues")

GetIssue == OneRequest("get_issue", "GET", "issue")

AddIssueComment == OneRequest("add_issue_comment", "POST", "comment")

CreatePullRequestUpstream == OneRequest("create_pull_request", "POST", "pulls")

CreateFileUpstream == OneRequest("create_file", "PUT", "contents")

(* close_issue: the PATCH is answered; with status 200 and a comment that *)
(* is neither None nor "" the comment is posted next, otherwise the method *)
(* returns.                                                                *)
CloseIssuePatch ==
    /\ srv_pc = "close_issue"
    /\ \E outcome \in UpstreamOutcomes :
         /\ srv_upstream' = Append(srv_upstream, Upstream("PATCH", "issue", outcome))
         /\ IF outcome = "success" /\ srv_request.comment = "text"
            THEN Await("close_issue_comment")
            ELSE Respond(ResultResponse("success",
                                        IF outcome = "success" THEN "True" ELSE "False"))
    /\ UNCHANGED <<srv_session, srv_request, exec_vars, fn_vars, life_vars, race_vars>>

(* close_issue: add_issue_comment has returned, whatever it returned *)
CloseIssueComment ==
    /\ srv_pc = "close_issue_comment"
    /\ \E outcome \in UpstreamOutcomes :
         /\ srv_upstream' = Append(srv_upstream, Upstream("POST", "comment", outcome))
         /\ Respond(ResultResponse("success", CloseResult(outcome)))
    /\ UNCHANGED <<srv_session, srv_request, exec_vars, fn_vars, life_vars, race_vars>>

(* create_branch posting the new ref whatever the lookup answered *)
CreateBranchGetRef_always_post ==
    /\ srv_pc = "create_branch"
    /\ \E outcome \in UpstreamOutcomes :
         /\ srv_upstream' = Append(srv_upstream, Upstream("GET", "ref", outcome))
         /\ Await("create_branch_post")
    /\ UNCHANGED <<srv_session, srv_request, exec_vars, fn_vars, life_vars, race_vars>>

(* create_branch: the GET of the base ref is answered *)
CreateBranchGetRef ==
    /\ srv_pc = "create_branch"
    /\ \E outcome \in UpstreamOutcomes :
         /\ srv_upstream' = Append(srv_upstream, Upstream("GET", "ref", outcome))
         /\ IF outcome = "success" THEN Await("create_branch_post")
            ELSE Respond(ResultResponse("success", "False"))
    /\ UNCHANGED <<srv_session, srv_request, exec_vars, fn_vars, life_vars, race_vars>>

(* create_branch: the POST of the new ref is answered *)
CreateBranchPostRef == OneRequest("create_branch_post", "POST", "refs")

ServerNext ==
    \/ HandleCall
    \/ ListIssues
    \/ GetIssue
    \/ CloseIssuePatch
    \/ CloseIssueComment
    \/ AddIssueComment
    \/ CreatePullRequestUpstream
    \/ CreateBranchGetRef
    \/ CreateBranchPostRef
    \/ CreateFileUpstream

ServerSpec == ServerInit /\ [][ServerNext]_vars

(* a call has been answered and no other is in progress *)
Answered == srv_pc = "idle" /\ srv_handled > 0

(* C12: every response of handle_call has exactly one of result and error *)
(* populated, whether the method was recognized, was unknown, or an        *)
(* exception was raised while handling.                                    *)
C12_ResultXorError ==
    srv_handled > 0 => (srv_response.body.result.set # srv_response.body.error.set)

(* a recognized method whose params lack a key: the except clause answered *)
C12_Witness ==
    /\ Answered
    /\ srv_request.json = "call"
    /\ srv_request.method \in RecognizedMethods
    /\ ~srv_request.complete
    /\ srv_response.status = 500
    /\ srv_response.body.error.set

(* C13: a call (a method and a params mapping) whose method is not one of *)
(* the seven recognized names is answered with an error that carries the   *)
(* literal method name and with no result, and no request is made to       *)
(* GitHub for it.                                                          *)
C13_UnknownMethod ==
    (Answered /\ srv_request.json = "call" /\ srv_request.method \notin RecognizedMethods) =>
        /\ srv_response.body.error = Error("Unknown method: ", srv_request.method)
        /\ ~srv_response.body.result.set
        /\ srv_upstream = <<>>

(* the second call of a run names close_issue without its namespace *)
C13_Witness ==
    /\ Answered
    /\ srv_handled = MaxRequests
    /\ srv_session = "open"
    /\ srv_request = Body("call", "close_issue", TRUE, "None")
    /\ srv_response.body.error.arg = "close_issue"

(* the call in progress or just answered is a close_issue *)
IsCloseCall == srv_request.json = "call" /\ srv_request.method = "github.close_issue"

(* C15: in close_issue the comment is posted only after the PATCH that    *)
(* closes the issue got status 200; close_issue then returns true whether  *)
(* or not the comment was added; when the PATCH fails no comment is posted *)
(* and close_issue returns false.                                          *)
C15_CommentAfterClose ==
    IsCloseCall =>
        /\ \A k \in 1..Len(srv_upstream) :
             srv_upstream[k].what = "comment" =>
                 /\ k = 2
                 /\ srv_upstream[1] = Upstream("PATCH", "issue", "success")
        /\ (Answered /\ srv_upstream # <<>>) =>
             IF srv_upstream[1].outcome = "success"
             THEN srv_response.body.result = Result("success", "True")
             ELSE /\ Len(srv_upstream) = 1
                  /\ srv_response.body.result = Result("success", "False")

(* the issue was closed, the comment was refused, the answer is true *)
C15_Witness ==
    /\ Answered
    /\ IsCloseCall
    /\ srv_request.comment = "text"
    /\ srv_upstream = <<Upstream("PATCH", "issue", "success"), Upstream("POST", "comment", "status")>>
    /\ srv_response.body.result = Result("success", "True")

(* the call in progress or just answered is a create_branch *)
IsCreateBranchCall == srv_request.json = "call" /\ srv_request.method = "github.create_branch"

(* C22: in create_branch the request that creates the new ref is sent     *)
(* only after the lookup of the base branch's ref got status 200; when the *)
(* lookup fails (another status or an exception) create_branch returns     *)
(* false and no creation request is sent.                                  *)
C22_RefLookupBeforeCreate ==
    IsCreateBranchCall =>
        /\ \A k \in 1..Len(srv_upstream) :
             srv_upstream[k].what = "refs" =>
                 /\ k = 2
                 /\ srv_upstream[1] = Upstream("GET", "ref", "success")
        /\ (Answered /\ srv_upstream # <<>> /\ srv_upstream[1].outcome # "success") =>
             /\ Len(srv_upstream) = 1
             /\ srv_response.body.result = Result("success", "False")

(* the lookup raised, nothing was posted and the answer is false *)
C22_Witness ==
    /\ Answered
    /\ IsCreateBranchCall
    /\ srv_upstream = <<Upstream("GET", "ref", "exception")>>
    /\ srv_response.body.result = Result("success", "False")

(* a list operation that got a 200 answer whose result holds the issues *)
ListAnswered ==
    /\ fn_pc = "done"
    /\ fn_in.op \in {"get_issues_by_label", "get_all_open_issues"}
    /\ fn_in.repository = "owner/repo"
    /\ fn_in.session # "closed"
    /\ fn_in.answer.post = "answered"
    /\ fn_in.answer.status = 200
    /\ fn_in.answer.json = "result"

(* C24: in get_issues_by_label and get_all_open_issues a payload that     *)
(* fails validation is skipped and the other payloads of the same answer   *)
(* are returned in their order: the value is the list of the payloads      *)
(* GitHubIssue accepts, never an exception and never emptied by one bad    *)
(* payload.                                                                *)
C24_MalformedSkipped ==
    ListAnswered =>
        fn_out = Returns(PyList(SelectSeq(fn_in.answer.payload, LAMBDA p : p \in ValidIssues)))

(* the path and content create_file must get for each block of blocks from *)
(* position k on: one entry per block whose language is supported, numbered *)
(* by the block's position among all blocks                                 *)
RECURSIVE ExpectedFiles(_, _)
ExpectedFiles(blocks, k) ==
    IF k > Len(blocks) THEN <<>>
    ELSE IF blocks[k].language \in SupportedLanguages
    THEN <<[path |-> [dir |-> "ai_task_implementations", stem |-> "ai_task_implementation_",
                      index |-> k, ext |-> ext_map(blocks[k].language)],
            content |-> blocks[k].code]>> \o ExpectedFiles(blocks, k + 1)
    ELSE ExpectedFiles(blocks, k + 1)

ExpectedFilesOf == [t \in AnalysisTexts |-> ExpectedFiles(BlocksOf[t], 1)]

(* path and content of the create_file calls made for issue n, in order *)
FilesOf(n) ==
    LET cs == SelectSeq(calls, LAMBDA c : c.issue = n /\ c.op = "create_file")
    IN [j \in 1..Len(cs) |-> [path |-> cs[j].path, content |-> cs[j].content]]

C25_BranchNameInjective ==
    fn_pc = "done" =>
        \A other \in BranchInputs :
            other.number # fn_in.number => BranchName(other) # fn_out

(* issue 1 titled "23" and issue 123 without a title: the names differ in *)
(* their hyphens only                                                      *)
C25_Witness ==
    /\ fn_pc = "done"
    /\ fn_in.number = 1
    /\ fn_in.title = <<"2", "3">>
    /\ \E other \in BranchInputs :
          /\ other.number = 123
          /\ other.title = <<>>
          /\ Filter(BranchName(other), IsAlnum) = Filter(fn_out, IsAlnum)

(* ------------------------------------------------------------------ *)
(* The classifier on its own                                           *)
(* ------------------------------------------------------------------ *)

(* titles: one per completed keyword, one in capitals, one without any    *)
(* keyword, one with an invalid keyword                                    *)
ClassifyTitles == {
    <<"A", "l", "r", "e", "a", "d", "y", " ", "d", "o", "n", "e", " ", "y", "e", "s", "t", "e", "r",
        "d", "a", "y">>,
    <<"A", "l", "r", "e", "a", "d", "y", " ", "c", "o", "m", "p", "l", "e", "t", "e", "d", " ", "y",
        "e", "s", "t", "e", "r", "d", "a", "y">>,
    <<"A", "l", "r", "e", "a", "d", "y", " ", "f", "i", "n", "i", "s", "h", "e", "d", " ", "y", "e",
        "s", "t", "e", "r", "d", "a", "y">>,
    <<"A", "l", "r", "e", "a", "d", "y", " ", "r", "e", "s", "o", "l", "v", "e", "d", " ", "y", "e",
        "s", "t", "e", "r", "d", "a", "y">>,
    <<"A", "l", "r", "e", "a", "d", "y", " ", "f", "i", "x", "e", "d", " ", "y", "e", "s", "t", "e",
        "r", "d", "a", "y">>,
    <<"A", "l", "r", "e", "a", "d", "y", " ", "c", "l", "o", "s", "e", "d", " ", "y", "e", "s", "t",
        "e", "r", "d", "a", "y">>,
    <<"A", "l", "r", "e", "a", "d", "y", " ", "i", "m", "p", "l", "e", "m", "e", "n", "t", "e", "d",
        " ", "y", "e", "s", "t", "e", "r", "d", "a", "y">>,
    <<"A", "l", "r", "e", "a", "d", "y", " ", "a", "d", "d", "e", "d", " ", "y", "e", "s", "t", "e",
        "r", "d", "a", "y">>,
    <<"A", "l", "r", "e", "a", "d", "y", " ", "c", "r", "e", "a", "t", "e", "d", " ", "y", "e", "s",
        "t", "e", "r", "d", "a", "y">>,
    <<"B", "u", "g", " ", "w", "a", "s", " ", "F", "I", "X", "E", "D">>,
    <<"Q", "u", "e", "s", "t", "i", "o", "n", " ", "a", "b", "o", "u", "t", " ", "r", "o", "a", "d",
        "m", "a", "p">>,
    <<"W", "r", "o", "n", "g", " ", "p", "a", "g", "e", " ", "s", "h", "o", "w", "n">>
  }

ClassifyBodies == {
    <<>>,
    <<"N", "o", "t", "h", "i", "n", "g", " ", "l", "e", "f", "t", " ", "t", "o", " ", "d", "o", ".">>,
    <<"L", "o", "o", "k", "s", " ", "w", "r", "o", "n", "g", " ", "t", "o", " ", "m", "e", ".">>,
    <<"I", "t", " ", "w", "a", "s", " ", "r", "e", "s", "o", "l", "v", "e", "d", ".">>
  }

(* list_issues is asked for state "all": open and closed issues arrive *)
IssueStates == {"open", "closed"}

ClassifyInputs ==
    {GitHubIssue(200, t, b, s) : t \in ClassifyTitles, b \in ClassifyBodies, s \in IssueStates}

ClassifyInit ==
    /\ ExecUnused
    /\ ServerUnused
    /\ LifeUnused
    /\ RaceUnused
    /\ fn_pc = "ready"
    /\ fn_in \in ClassifyInputs
    /\ fn_out = <<>>

(* the if/elif/else chain of the loop body picks its branch *)
Classify ==
    /\ fn_pc = "ready"
    /\ fn_out' = take_action_branches(fn_in)
    /\ fn_pc' = "done"
    /\ UNCHANGED <<fn_in, exec_vars, srv_vars, life_vars, race_vars>>

ClassifyNext == Classify

ClassifySpec == ClassifyInit /\ [][ClassifyNext]_vars

(* the completed keywords that contain a code-change keyword *)
ShadowedKeywords == <<<<"f", "i", "x", "e", "d">>, <<"i", "m", "p", "l", "e", "m", "e", "n", "t", "e", "d">>, <<"a", "d", "d", "e", "d">>, <<"c", "r", "e", "a", "t", "e", "d">>>>

(* the completed keywords that contain none *)
EffectiveKeywords == <<<<"d", "o", "n", "e">>,
    <<"c", "o", "m", "p", "l", "e", "t", "e", "d">>,
    <<"f", "i", "n", "i", "s", "h", "e", "d">>,
    <<"r", "e", "s", "o", "l", "v", "e", "d">>,
    <<"c", "l", "o", "s", "e", "d">>>>

(* the lower-cased "title body" text of the classified issue *)
ClassifiedText == Lower(fn_in.title \o <<" ">> \o fn_in.body)

C27_StateIgnored ==
    fn_pc = "done" =>
        \A s \in IssueStates : fn_out = take_action_branches([fn_in EXCEPT !.state = s])

(* a closed issue is closed once more *)
C27_Witness ==
    /\ fn_pc = "done"
    /\ fn_in.state = "closed"
    /\ fn_out = <<"close_completed">>

(* the file loop of the k-th task has run to its end *)
FilesDone(k) == AttemptEnded(k) /\ HasGoodCall(ai_tasks[k], "create_branch")

(* C28 as stated: the create_file calls of any two code-change issues     *)
(* whose attempt has ended have the same paths and contents.               *)
C28_AnyTwoCodeChangeIssues ==
    \A k1, k2 \in 1..Len(ai_tasks) :
        (/\ AttemptEnded(k1) /\ IsCodeChange[ai_tasks[k1]]
         /\ AttemptEnded(k2) /\ IsCodeChange[ai_tasks[k2]])
        => FilesOf(ai_tasks[k1]) = FilesOf(ai_tasks[k2])

(* C28, amended: within one invocation the create_file calls of any two   *)
(* code-change issues whose file loop ran have the same paths and the same *)
(* contents, in the same order, because the blocks come from the one       *)
(* analysis text; each call goes to the branch of its own issue.           *)
C28_SameFilesForEveryIssue ==
    /\ \A k1, k2 \in 1..Len(ai_tasks) :
          (FilesDone(k1) /\ FilesDone(k2)) => FilesOf(ai_tasks[k1]) = FilesOf(ai_tasks[k2])
    /\ \A j \in 1..Len(calls) :
          calls[j].op = "create_file" => calls[j].branch = BranchNameOf[calls[j].issue]

(* issues 123 and 125 both got the two files of the three-block text, on  *)
(* different branches                                                      *)
C28_Witness ==
    /\ Len(ai_tasks) = 2
    /\ FilesDone(1)
    /\ FilesDone(2)
    /\ Len(FilesOf(ai_tasks[1])) = 2
    /\ Len(FilesOf(ai_tasks[2])) = 2
    /\ BranchNameOf[ai_tasks[1]] # BranchNameOf[ai_tasks[2]]

(* ------------------------------------------------------------------ *)
(* save_implementations beside the remote file loop                    *)
(* ------------------------------------------------------------------ *)

(* the texts both are given: the analysis texts and the fenced block lists *)
SaveTexts == AnalysisTexts \cup {Markdown(blocks) : blocks \in BlockLists}

(* 1-based block positions whose open(filepath, 'w') raises *)
WriteFailures == SUBSET (1..MaxBlocks)

(* a file name numbered from 0 *)
LocalFileName_zero_based(i, block) ==
    [stem |-> "ai_task_implementation_", index |-> i, ext |-> ext_map(block.language)]

(* filename = f"ai_task_implementation_{i+1}{ext}", i 0-based *)
LocalFileName(i, block) ==
    [stem |-> "ai_task_implementation_", index |-> i + 1, ext |-> ext_map(block.language)]

(* The loop of save_implementations from 0-based position i on: the names *)
(* of the files appended to saved_files.  A block with another language is *)
(* passed over; a write that raises is logged and its file is not saved.   *)
RECURSIVE SaveLoop(_, _, _)
SaveLoop(blocks, i, failing) ==
    IF i >= Len(blocks) THEN <<>>
    ELSE IF blocks[i + 1].language \in SupportedLanguages /\ (i + 1) \notin failing
    THEN <<LocalFileName(i, blocks[i + 1])>> \o SaveLoop(blocks, i + 1, failing)
    ELSE SaveLoop(blocks, i + 1, failing)

(* saved_files of save_implementations(result), every file in output_dir *)
save_implementations(result, failing) == SaveLoop(extract_code_blocks(result), 0, failing)

(* the paths the loop of _create_pull_request_for_issue passes to          *)
(* create_file from 0-based position from on                               *)
RECURSIVE RemoteLoop(_, _)
RemoteLoop(blocks, from) ==
    LET nxt == NextSupported(blocks, from)
    IN IF nxt < Len(blocks)
       THEN <<FilePath(nxt, blocks[nxt + 1])>> \o RemoteLoop(blocks, nxt + 1)
       ELSE <<>>

(* os.path.basename of a remote path *)
BaseName(path) == [stem |-> path.stem, index |-> path.index, ext |-> path.ext]

BaseNames(paths) == [j \in 1..Len(paths) |-> BaseName(paths[j])]

SaveInit ==
    /\ ExecUnused
    /\ ServerUnused
    /\ LifeUnused
    /\ RaceUnused
    /\ fn_pc = "ready"
    /\ fn_in \in [result : SaveTexts, failing : WriteFailures]
    /\ fn_out = <<>>

(* the same text goes through save_implementations and the remote loop *)
SaveAndCreate ==
    /\ fn_pc = "ready"
    /\ fn_out' = [local |-> save_implementations(fn_in.result, fn_in.failing),
                  remote |-> RemoteLoop(extract_code_blocks(fn_in.result), 0)]
    /\ fn_pc' = "done"
    /\ UNCHANGED <<fn_in, exec_vars, srv_vars, life_vars, race_vars>>

SaveNext == SaveAndCreate

SaveSpec == SaveInit /\ [][SaveNext]_vars

(* C30 as stated: the names of the local files written are the base names *)
(* of the paths passed to create_file, block for block.                    *)
C30_SameNames ==
    fn_pc = "done" => fn_out.local = BaseNames(fn_out.remote)

(* the blocks of the text that get a file, by 1-based position *)
WrittenPositions == {fn_out.remote[j].index : j \in 1..Len(fn_out.remote)}

(* C30, amended: when no local write raises, the names of the local files *)
(* written are the base names of the paths the remote loop passes to       *)
(* create_file, block for block; a write that raises removes exactly that  *)
(* block's name from the local files.                                      *)
C30_SameNamesWhenWritten ==
    fn_pc = "done" =>
        fn_out.local =
            SelectSeq(BaseNames(fn_out.remote), LAMBDA name : name.index \notin fn_in.failing)

(* three blocks, the second one bash, every write succeeds: files 1 and 3 *)
(* on both sides                                                           *)
C30_Witness ==
    /\ fn_pc = "done"
    /\ fn_in.failing \cap WrittenPositions = {}
    /\ Len(fn_out.local) = 2
    /\ fn_out.local[2].index = 3
    /\ fn_out.local = BaseNames(fn_out.remote)

(* ------------------------------------------------------------------ *)
(* Sessions: the client's with block and main() of the server          *)
(* ------------------------------------------------------------------ *)

(* gateway calls made inside one with block *)
MaxCalls == 3

LifeInit ==
    /\ ExecUnused
    /\ FnUnused
    /\ ServerUnused
    /\ RaceUnused
    /\ cli_pc = "new"
    /\ cli_session = "None"
    /\ cli_created = 0
    /\ cli_calls = 0
    /\ main_pc = "start"
    /\ main_session = "None"

ClientUnchanged == UNCHANGED <<cli_pc, cli_session, cli_created, cli_calls>>

MainUnchanged == UNCHANGED <<main_pc, main_session>>

(* async with GitHubMCPClient(mcp_url) as mcp_client: __aenter__ *)
ClientEnter ==
    /\ cli_pc = "new"
    /\ cli_session' = "open"
    /\ cli_created' = cli_created + 1
    /\ cli_pc' = "body"
    /\ UNCHANGED <<cli_calls, exec_vars, fn_vars, srv_vars, race_vars>>
    /\ MainUnchanged

(* a method called in the block: if not self.session: self.session = ... *)
ClientMethod ==
    /\ cli_pc = "body"
    /\ cli_calls < MaxCalls
    /\ cli_calls' = cli_calls + 1
    /\ IF cli_session = "None"
       THEN cli_session' = "open" /\ cli_created' = cli_created + 1
       ELSE UNCHANGED <<cli_session, cli_created>>
    /\ UNCHANGED <<cli_pc, exec_vars, fn_vars, srv_vars, race_vars>>
    /\ MainUnchanged

(* the block is left, at its end or by an exception: __aexit__ closes the *)
(* session, and an exception goes to the except clause of main.py          *)
ClientLeave ==
    /\ cli_pc = "body"
    /\ \E how \in {"exited", "caught"} : cli_pc' = how
    /\ cli_session' = IF cli_session = "None" THEN "None" ELSE "closed"
    /\ UNCHANGED <<cli_created, cli_calls, exec_vars, fn_vars, srv_vars, race_vars>>
    /\ MainUnchanged

(* main(): without GITHUB_TOKEN it returns, else it calls create_mcp_server *)
MainStart ==
    /\ main_pc = "start"
    /\ \E token \in BOOLEAN :
         main_pc' = IF token THEN "create_mcp_server" ELSE "returned"
    /\ UNCHANGED <<main_session, exec_vars, fn_vars, srv_vars, race_vars>>
    /\ ClientUnchanged

(* await github_server.__aenter__() *)
OpenSession ==
    /\ main_pc = "create_mcp_server"
    /\ main_session' = "open"
    /\ main_pc' = "runner_setup"
    /\ UNCHANGED <<exec_vars, fn_vars, srv_vars, race_vars>>
    /\ ClientUnchanged

(* await runner.setup(): an exception leaves create_mcp_server and main *)
RunnerSetup ==
    /\ main_pc = "runner_setup"
    /\ \E ok \in BOOLEAN : main_pc' = IF ok THEN "site_start" ELSE "raised"
    /\ UNCHANGED <<main_session, exec_vars, fn_vars, srv_vars, race_vars>>
    /\ ClientUnchanged

(* await site.start(): an exception (the port is taken) leaves both *)
SiteStart ==
    /\ main_pc = "site_start"
    /\ \E ok \in BOOLEAN : main_pc' = IF ok THEN "loop" ELSE "raised"
    /\ UNCHANGED <<main_session, exec_vars, fn_vars, srv_vars, race_vars>>
    /\ ClientUnchanged

(* while True: await asyncio.sleep(1) ends: interrupt, cancellation, error *)
LoopEnds ==
    /\ main_pc = "loop"
    /\ main_pc' = "finally"
    /\ UNCHANGED <<main_session, exec_vars, fn_vars, srv_vars, race_vars>>
    /\ ClientUnchanged

(* finally: await runner.cleanup(); await github_server.__aexit__(...) *)
Finally ==
    /\ main_pc = "finally"
    /\ \E cleaned \in BOOLEAN :
         IF cleaned THEN main_session' = "closed" /\ main_pc' = "returned"
         ELSE main_session' = main_session /\ main_pc' = "raised"
    /\ UNCHANGED <<exec_vars, fn_vars, srv_vars, race_vars>>
    /\ ClientUnchanged

LifeNext ==
    \/ ClientEnter
    \/ ClientMethod
    \/ ClientLeave
    \/ MainStart
    \/ OpenSession
    \/ RunnerSetup
    \/ SiteStart
    \/ LoopEnds
    \/ Finally

LifeSpec == LifeInit /\ [][LifeNext]_vars

(* the with block has been left *)
ClientEnded == cli_pc \in {"exited", "caught"}

(* main() of the server has ended *)
MainEnded == main_pc \in {"returned", "raised"}

(* C21: the session is acquired once per invocation and released on every *)
(* exit path: once the client's with block is left, normally or by an       *)
(* exception, its one session is closed; once main() of the server has      *)
(* ended, also by a failure of start-up after the session was opened, no    *)
(* session is left open.                                                    *)
C21_SessionReleased ==
    /\ ClientEnded => (cli_session = "closed" /\ cli_created = 1)
    /\ MainEnded => main_session # "open"

(* ------------------------------------------------------------------ *)
(* Two invocations at once                                             *)
(* ------------------------------------------------------------------ *)

Invocations == {1, 2}

(* the code-change issues an invocation can be working on *)
RaceIssues == {n \in IssueNumbers : IsCodeChange[n]}

(* both invocations got an analysis text with three blocks *)
RaceText == CHOOSE t \in AnalysisTexts : Len(BlocksOf[t]) = 3

(* the create_file calls one attempt makes *)
RaceFiles == Len(RemoteLoop(BlocksOf[RaceText], 0))

NothingMade == [branch |-> "none", tried |-> 0, files |-> 0, pr |-> FALSE, comment |-> FALSE]

RaceInit ==
    /\ ExecUnused
    /\ FnUnused
    /\ ServerUnused
    /\ LifeUnused
    /\ race_issue \in [Invocations -> RaceIssues]
    /\ race_pc = [p \in Invocations |-> "create_branch"]
    /\ race_refs = {}
    /\ race_made = [p \in Invocations |-> NothingMade]

(* invocation p goes to position step having made what m says *)
RaceGoto(p, step, m) ==
    /\ race_pc' = [race_pc EXCEPT ![p] = step]
    /\ race_made' = [race_made EXCEPT ![p] = m]

(* the attempt going on whatever create_branch returned *)
RaceBranchReturns_ignored(p, branch_created) ==
    RaceGoto(p, "create_file",
             [race_made[p] EXCEPT !.branch = IF branch_created THEN "created" ELSE "failed"])

(* create_branch has returned branch_created to invocation p *)
RaceBranchReturns(p, branch_created) ==
    IF BranchAborts(branch_created)
    THEN RaceGoto(p, "add_issue_comment", [race_made[p] EXCEPT !.branch = "failed"])
    ELSE RaceGoto(p, "create_file", [race_made[p] EXCEPT !.branch = "created"])

(* create_branch of p, first half: the server looks up the base ref *)
RaceLookupRef(p) ==
    /\ race_pc[p] = "create_branch"
    /\ \E outcome \in UpstreamOutcomes :
         IF outcome = "success" THEN RaceGoto(p, "create_ref", race_made[p])
         ELSE RaceBranchReturns(p, FALSE)
    /\ UNCHANGED <<race_issue, race_refs, exec_vars, fn_vars, srv_vars, life_vars>>

(* create_branch of p, second half: the server posts the new ref.  The    *)
(* upstream answers 201 and adds the ref only when it does not exist yet;  *)
(* it answers another status without adding it; or the answer is lost,     *)
(* with the ref added or not.                                              *)
RaceCreateRef(p) ==
    /\ race_pc[p] = "create_ref"
    /\ LET ref == BranchNameOf[race_issue[p]]
       IN \E outcome \in UpstreamOutcomes :
            \/ /\ outcome = "success"
               /\ ref \notin race_refs
               /\ race_refs' = race_refs \cup {ref}
               /\ RaceBranchReturns(p, TRUE)
            \/ /\ outcome = "status"
               /\ race_refs' = race_refs
               /\ RaceBranchReturns(p, FALSE)
            \/ /\ outcome = "exception"
               /\ \E added \in BOOLEAN :
                    race_refs' = IF added THEN race_refs \cup {ref} ELSE race_refs
               /\ RaceBranchReturns(p, FALSE)
    /\ UNCHANGED <<race_issue, exec_vars, fn_vars, srv_vars, life_vars>>

(* one create_file call of p returns; after the last one the zero-files   *)
(* check decides between the pull request and the failure result           *)
RaceCreateFile(p) ==
    /\ race_pc[p] = "create_file"
    /\ \E outcome \in Outcomes :
         LET r == create_file(outcome)
             m == [race_made[p] EXCEPT !.tried = @ + 1,
                                       !.files = IF r.ok THEN @ + 1 ELSE @]
         IN IF m.tried < RaceFiles THEN RaceGoto(p, "create_file", m)
            ELSE IF NoFilesCreated(m.files) THEN RaceGoto(p, "add_issue_comment", m)
            ELSE RaceGoto(p, "create_pull_request", m)
    /\ UNCHANGED <<race_issue, race_refs, exec_vars, fn_vars, srv_vars, life_vars>>

(* create_pull_request of p returns *)
RaceCreatePullRequest(p) ==
    /\ race_pc[p] = "create_pull_request"
    /\ \E outcome \in Outcomes :
         RaceGoto(p, "add_issue_comment",
                  [race_made[p] EXCEPT !.pr = create_pull_request(outcome, PullRequest(FirstPR)).ok])
    /\ UNCHANGED <<race_issue, race_refs, exec_vars, fn_vars, srv_vars, life_vars>>

(* the follow-up comment of p is posted, whatever its result *)
RaceAddComment(p) ==
    /\ race_pc[p] = "add_issue_comment"
    /\ \E outcome \in Outcomes :
         RaceGoto(p, "done",
                  [race_made[p] EXCEPT !.comment = ~add_issue_comment(outcome).raised])
    /\ UNCHANGED <<race_issue, race_refs, exec_vars, fn_vars, srv_vars, life_vars>>

RaceNext ==
    \E p \in Invocations :
        \/ RaceLookupRef(p)
        \/ RaceCreateRef(p)
        \/ RaceCreateFile(p)
        \/ RaceCreatePullRequest(p)
        \/ RaceAddComment(p)

RaceSpec == RaceInit /\ [][RaceNext]_vars

(* C29: when two invocations process the same issue at once and the       *)
(* upstream rejects a ref that exists, at most one of them gets the branch *)
(* and so at most one creates files and opens a pull request, in every     *)
(* interleaving; an invocation without the branch makes no create_file and *)
(* no create_pull_request call; and each of them posts its follow-up       *)
(* comment before it is done.                                              *)
C29_AtMostOnePullRequest ==
    /\ \A p, q \in Invocations :
          (p # q /\ race_issue[p] = race_issue[q])
          => ~(race_made[p].branch = "created" /\ race_made[q].branch = "created")
    /\ \A p \in Invocations :
          /\ (race_made[p].tried > 0 \/ race_made[p].pr) => race_made[p].branch = "created"
          /\ race_pc[p] = "done" <=> race_made[p].comment

(* both work on the same issue and are done: one opened the pull request, *)
(* the other stopped at the branch, both commented                         *)
C29_Witness ==
    \E p, q \in Invocations :
        /\ p # q
        /\ race_issue[p] = race_issue[q]
        /\ race_pc[p] = "done" /\ race_pc[q] = "done"
        /\ race_made[p].pr /\ race_made[p].files = RaceFiles
        /\ race_made[q].branch = "failed" /\ race_made[q].tried = 0
        /\ race_made[p].comment /\ race_made[q].comment

====
